---------------------------- MODULE Spec2Model ----------------------------
(***************************************************************************)
(* Parallel fan-out retrieval (agent/chatbot_agent_claw7.py) and the token *)
(* streaming relay (Backend/server.py).                                    *)
(*                                                                         *)
(* Scores are integers in hundredths (0.70 is 70).  Python's 0-based list  *)
(* positions are 1-based here; search ids keep the source's numbering      *)
(* (the sub-query at position k carries "Qk").  Wall-clock timings are not *)
(* part of the state.                                                      *)
(***************************************************************************)
EXTENDS Integers, Sequences, FiniteSets, TLC

(***************************************************************************)
(* Bounds of the model.                                                    *)
(***************************************************************************)
MaxQueries == 5
MaxTokens == 4
MaxStreamTokens == 3
MaxAggQueries == 3
MaxItems == 2

(***************************************************************************)
(* Program constants.                                                      *)
(***************************************************************************)
MaxWorkers == 4
RerankTopN == 10
FallbackTopN == 8
UnknownOrder == 999

(***************************************************************************)
(* Python dictionaries are functions whose domain is the set of keys.      *)
(***************************************************************************)
Get(d, k, default) == IF k \in DOMAIN d THEN d[k] ELSE default

SetKey(d, k, v) == [x \in (DOMAIN d) \cup {k} |-> IF x = k THEN v ELSE d[x]]

Min(a, b) == IF a < b THEN a ELSE b

(***************************************************************************)
(* sorted(xs, key=lambda x: x.get('similarity', 0), reverse=True): stable, *)
(* records of equal similarity keep their order.                           *)
(***************************************************************************)
SimilarityOf(x) == Get(x, "similarity", 0)

\* The place a record takes in the sorted list: behind the records of higher
\* similarity and the earlier records of the same similarity.
PlaceBySimilarity(xs, j) ==
    1 + Cardinality({i \in 1..Len(xs) :
                        \/ SimilarityOf(xs[i]) > SimilarityOf(xs[j])
                        \/ SimilarityOf(xs[i]) = SimilarityOf(xs[j]) /\ i < j})

SortedBySimilarity(xs) ==
    [p \in 1..Len(xs) |-> xs[CHOOSE j \in 1..Len(xs) : PlaceBySimilarity(xs, j) = p]]

(***************************************************************************)
(* execute_dual_track_search, as a function of what the three services do. *)
(***************************************************************************)
\* line 360: the longest content a formatted chunk carries in full
ContentLimit == 800

\* n characters of filling.
RECURSIVE Fill(_)
Fill(n) ==
    IF n = 0 THEN ""
    ELSE LET half == Fill(n \div 2)
         IN  half \o half \o (IF n % 2 = 1 THEN "x" ELSE "")

\* The content column of the row with an id: a short text, but for the rows
\* 21, 22 and 23 a text of exactly the limit, of one character more and of
\* twice the limit, each ending in "!".
ContentOf(id) ==
    LET text == "chunk " \o ToString(id)
        length == CASE id = 21 -> ContentLimit
                    [] id = 22 -> ContentLimit + 1
                    [] id = 23 -> 2 * ContentLimit
                    [] OTHER -> Len(text)
    IN  IF length = Len(text) THEN text
        ELSE text \o Fill(length - Len(text) - 1) \o "!"

Rec(id, sim) == [id |-> id, similarity |-> sim, content |-> ContentOf(id)]

\* Rows of the given ids, of descending similarity below sim.
Rows(ids, sim) == [p \in 1..Len(ids) |-> Rec(ids[p], sim - p)]

\* A row that came back without its content column.
RowWithoutContent == [id |-> 4, similarity |-> 50]

\* What one retrieval call may answer: an exception, or rows (no rows at all
\* when .data is None or empty).
TrackOutcomes ==
    { [raises |-> TRUE, data |-> << >>],
      [raises |-> FALSE, data |-> << >>],
      [raises |-> FALSE, data |-> << Rec(1, 70) >>],
      [raises |-> FALSE, data |-> << RowWithoutContent >>],
      [raises |-> FALSE, data |-> << Rec(2, 55), Rec(1, 60) >>],
      [raises |-> FALSE, data |-> << Rec(3, 80), Rec(2, 45) >>],
      [raises |-> FALSE, data |-> Rows(<< 10, 11, 12, 13, 14, 15 >>, 60)],
      [raises |-> FALSE, data |-> Rows(<< 15, 16, 17, 18, 19, 20 >>, 90)] }

\* What the reranking service may answer: an exception, or the top_n documents
\* in one of two orders.
RerankOutcomes == {"raise", "keep", "reverse"}

ExecEnvs ==
    [embed : {"ok", "raise"}, simple : TrackOutcomes, title : TrackOutcomes,
     rerank : RerankOutcomes]

\* rerank_response.results for m documents: top_n entries {index, relevance_score},
\* the scores between 0 and 1 and descending.
RerankResults(how, m, top_n) ==
    [p \in 1..top_n |->
        [index |-> IF how = "keep" THEN p ELSE m + 1 - p,
         relevance_score |-> 90 - 5 * p]]

\* A merge that keeps every row of both tracks.
ConcatResults(simple_results, title_results) == simple_results \o title_results

\* A merge in which the last occurrence of an id wins.
CombineLastWins(simple_results, title_results) ==
    LET all == simple_results \o title_results
        keep == {j \in 1..Len(all) : \A i \in (j + 1)..Len(all) : all[i].id # all[j].id}
        F[j \in 0..Len(all)] ==
            IF j = 0 THEN << >>
            ELSE IF j \in keep THEN Append(F[j - 1], all[j]) ELSE F[j - 1]
    IN  F[Len(all)]

\* lines 119-126: first occurrence of an id wins, simple track first
CombineResults(simple_results, title_results) ==
    LET all == simple_results \o title_results
        keep == {j \in 1..Len(all) : \A i \in 1..(j - 1) : all[i].id # all[j].id}
        F[j \in 0..Len(all)] ==
            IF j = 0 THEN << >>
            ELSE IF j \in keep THEN Append(F[j - 1], all[j]) ELSE F[j - 1]
    IN  F[Len(all)]

\* lines 146-151
MapReranked(combined_results, results) ==
    [p \in 1..Len(results) |->
        SetKey(SetKey(combined_results[results[p].index],
                      "cohere_score", results[p].relevance_score),
               "rerank_position", p)]

\* A fallback that cuts the merged records without sorting them.
UnsortedFallback(combined_results) ==
    SubSeq(combined_results, 1, Min(FallbackTopN, Len(combined_results)))

\* lines 159-161
SimilarityFallback(combined_results) ==
    LET s == SortedBySimilarity(combined_results)
    IN  SubSeq(s, 1, Min(FallbackTopN, Len(s)))

\* lines 129-163
FinalResults(combined_results, rerank) ==
    IF combined_results = << >> THEN << >>
    ELSE IF rerank = "raise" THEN SimilarityFallback(combined_results)
    ELSE MapReranked(combined_results,
                     RerankResults(rerank, Len(combined_results),
                                   Min(RerankTopN, Len(combined_results))))

\* lines 168-175
SearchSucceeded(query, search_id, combined_results, final_results) ==
    [query |-> query, search_id |-> search_id, results |-> final_results,
     total_before_rerank |-> Len(combined_results),
     total_after_rerank |-> Len(final_results)]

\* lines 177-186
SearchFailed(query, search_id, what) ==
    [query |-> query, search_id |-> search_id,
     error |-> "Search failed for '" \o query \o "': " \o what,
     results |-> << >>]

\* An exception that leaves a function instead of a return value.
Raised(what) == [raised |-> what]

IsRaised(r) == "raised" \in DOMAIN r

\* line 133: result['content'] of a row without that key is a KeyError
DocumentsRaise(combined_results) ==
    \E p \in 1..Len(combined_results) : "content" \notin DOMAIN combined_results[p]

\* lines 90-175: the body of the try block
SearchBody(query, search_id, env) ==
    IF env.embed = "raise" THEN Raised("embedding")
    ELSE IF env.simple.raises THEN Raised("simple_hybrid_search")
    ELSE IF env.title.raises THEN Raised("title_filtered_search")
    ELSE LET combined == CombineResults(env.simple.data, env.title.data)
         IN  IF DocumentsRaise(combined) THEN Raised("KeyError: 'content'")
             ELSE SearchSucceeded(query, search_id, combined,
                                  FinalResults(combined, env.rerank))

ExecuteDualTrackSearch(query, search_id, env) ==
    LET r == SearchBody(query, search_id, env)
    IN  IF IsRaised(r) THEN SearchFailed(query, search_id, r.raised) ELSE r

(***************************************************************************)
(* State.                                                                  *)
(***************************************************************************)
VARIABLES
    \* parallel_comprehensive_search: the fan-out over the sub-queries
    query_input,         \* the string the tool was called with
    queries,             \* the list of sub-queries: parsed, then cleaned
    mainPc,              \* where the calling thread is
    submitted,           \* how many tasks executor.submit has queued
    taskState,           \* per task: queued, running, hung, finished, collected
    taskResult,          \* per completed task: what its future holds
    all_search_results,  \* the list the as_completed loop builds
    collectOrder,        \* history: the tasks in the order as_completed yielded them
    \* one execute_dual_track_search call, step by step
    exPc,                \* where the executor is
    exEnv,               \* what the services answer to this executor
    track,               \* per retrieval call: new, running, returned, raised
    rerankCall,          \* the co.rerank call: new, skipped, returned, raised
    exPending,           \* the exception on its way to the except clause
    simple_results, title_results, combined_results, final_results,
    exResult,            \* what the call returned
    \* one /ask_stream request: the worker thread, the handler, the generator
    genStream,           \* the tokens the model generates during the agent run
    genPos,              \* how many of them the handler has been called with
    buffer, started,     \* SSECallbackHandler.buffer, .started
    token_queue, status_queue,
    wPc,                 \* where worker() is
    cPc,                 \* where stream() is
    token,               \* stream(): the item it took from token_queue
    answer_started,      \* stream(): answer_started
    emitted,             \* the payloads stream() has yielded, in order
    CHAT_MEMORY,         \* the turns of the request's chat_id
    \* parallel_comprehensive_search after the fan-out: aggregation and fusion
    aggPc,               \* where the calling thread is
    aggEnv,              \* history: what the services answered to each sub-query
    chunk_groups,        \* the groups by record id, in insertion order
    deduplicated_chunks,
    final_rerank,        \* what the final co.rerank call answered
    final_chunks,
    formatted_results,
    report,              \* what parallel_comprehensive_search hands to json.dumps
    \* several requests of one chat_id, Backend/server.py
    reqKind,             \* the endpoint of each request
    reqPc,               \* where each request's thread is
    reqList,             \* the list object its CHAT_MEMORY[chat_id] evaluated to
    session_entry,       \* the list object stored under chat_id in CHAT_MEMORY
    turn_lists           \* the contents of each list object

fanVars == << query_input, queries, mainPc, submitted, taskState, taskResult, all_search_results,
             collectOrder >>

execVars == << exPc, exEnv, track, rerankCall, exPending, simple_results,
               title_results, combined_results, final_results, exResult >>

gateVars == << genStream, genPos, buffer, started, token_queue >>

relayVars == << status_queue, wPc, cPc, token, answer_started, emitted, CHAT_MEMORY >>

streamVars == << gateVars, relayVars >>

aggVars == << aggPc, aggEnv, chunk_groups, deduplicated_chunks, final_rerank, final_chunks,
             formatted_results, report >>

sessionVars == << reqKind, reqPc, reqList, session_entry, turn_lists >>

vars == << fanVars, execVars, streamVars, aggVars, sessionVars >>

(***************************************************************************)
(* parallel_comprehensive_search, lines 243-258.                           *)
(***************************************************************************)
NumQueries == Len(queries)

Tasks == 1..NumQueries

\* f"Q{i+1}" for the 0-based position i
SearchId(k) == "Q" \o ToString(k)

\* Sub-query lists as the cleanup of lines 232-234 leaves them: non-empty,
\* stripped strings; the third sub-query repeats the text of the first.
QueryText(k) == "sub-query " \o ToString(IF k = 3 THEN 1 ELSE k)

QueryLists(n) == { [k \in 1..n |-> QueryText(k)] }

\* What the services do for the sub-queries of one fan-out.
FanOutEnvs ==
    { [embed |-> "ok",
       simple |-> [raises |-> FALSE, data |-> << Rec(2, 55), Rec(1, 60) >>],
       title |-> [raises |-> FALSE, data |-> << Rec(1, 70) >>],
       rerank |-> "keep"],
      [embed |-> "raise",
       simple |-> [raises |-> FALSE, data |-> << >>],
       title |-> [raises |-> FALSE, data |-> << >>],
       rerank |-> "keep"] }

\* What the services do for the i-th sub-query: its title track finds the
\* row i, so that different sub-queries return different records.
FanOutEnvsOf(i) ==
    { IF env.title.data = << >> THEN env
      ELSE [env EXCEPT !.title.data = << Rec(i, 70) >>] : env \in FanOutEnvs }

\* A pool with a thread for every sub-query.
PoolOfAll == NumQueries

\* line 243: max_workers
PoolSize == Min(NumQueries, MaxWorkers)

Busy == {i \in Tasks : taskState[i] \in {"running", "hung"}}

(***************************************************************************)
(* The sub-query parsing of parallel_comprehensive_search, lines 203-234.  *)
(* A Python value carries its type.  A str is given by its characters, or  *)
(* as the JSON text of a value with or without whitespace around it, or as *)
(* the str() of a value, or by its text when only the text matters.        *)
(***************************************************************************)
PyNone == [type |-> "NoneType"]

PyInt(n) == [type |-> "int", n |-> n]

PyStr(chars) == [type |-> "str", chars |-> chars]

PyList(items) == [type |-> "list", items |-> items]

\* a dict of one entry
PyDict(key, value) == [type |-> "dict", key |-> key, value |-> value]

\* the text json.dumps(value) writes, between blanks when padded
JsonText(value, padded) == [type |-> "str", json |-> value, padded |-> padded]

\* a str without blanks around it, known by its text
NamedStr(text) == [type |-> "str", text |-> text]

\* str(value): the digits of an int are its JSON text, "None" and the repr
\* of a dict are no JSON text
StrOf(value) ==
    IF value.type = "int" THEN JsonText(value, FALSE)
    ELSE [type |-> "str", of |-> value]

isinstance(value, type) == value.type = type

\* json.loads(s) of a str: letters and blanks are no JSON text, and neither
\* is the empty string
JsonLoads(s) ==
    IF "json" \in DOMAIN s THEN s.json ELSE Raised("JSONDecodeError")

\* s.strip()
Strip(s) ==
    IF "chars" \in DOMAIN s
    THEN LET inked == {i \in 1..Len(s.chars) : s.chars[i] # " "}
         IN  IF inked = {} THEN PyStr(<< >>)
             ELSE PyStr(SubSeq(s.chars,
                               CHOOSE i \in inked : \A j \in inked : i <= j,
                               CHOOSE i \in inked : \A j \in inked : i >= j))
    ELSE IF "json" \in DOMAIN s THEN [s EXCEPT !.padded = FALSE]
    ELSE s

\* bool(s) of a str: only the empty string is false
Truthy(s) == "chars" \in DOMAIN s => s.chars # << >>

\* "for q in value" works on a list, a str and a dict; an int and None are
\* not iterable
Iterable(value) == value.type \in {"list", "str", "dict"}

\* what "for q in value" yields: the items of a list, the characters of a
\* str, the keys of a dict.  The inputs nest JSON text two deep, so a str
\* that is iterated has its characters.
Iterate(value) ==
    IF value.type = "list" THEN value.items
    ELSE IF value.type = "str" THEN [i \in 1..Len(value.chars) |-> PyStr(<< value.chars[i] >>)]
    ELSE << NamedStr(value.key) >>

\* the tool input that holds these sub-queries as a JSON array
QueryInputOf(qs) == JsonText(PyList(qs), FALSE)

\* line 234
DefaultQuery == NamedStr("general dementia care information")

\* lines 208-224, the body of the try: the value bound to queries, or what
\* it raised
ParseTry(input) ==
    LET parsed == JsonLoads(input)
    IN  IF IsRaised(parsed) THEN parsed
        ELSE IF isinstance(parsed, "list") THEN parsed
        ELSE IF isinstance(parsed, "dict") /\ parsed.key = "queries_json"
        THEN LET inner_json == parsed.value
             IN  IF isinstance(inner_json, "str") THEN JsonLoads(inner_json)
                 ELSE inner_json
        ELSE IF isinstance(parsed, "str")
        THEN LET decoded == JsonLoads(parsed)
             IN  IF IsRaised(decoded) THEN PyList(<< parsed >>) ELSE decoded
        ELSE PyList(<< StrOf(parsed) >>)

\* lines 206-229: the try with its except clause
ParseQueryInput(input) ==
    LET tried == ParseTry(input)
    IN  IF IsRaised(tried) /\ tried.raised \in {"JSONDecodeError", "TypeError", "KeyError"}
        THEN PyList(<< Strip(input) >>)
        ELSE tried

\* [q.strip() for q in items if q.strip()] over strings
RECURSIVE StripAll(_)
StripAll(items) ==
    IF items = << >> THEN << >>
    ELSE IF Truthy(Strip(Head(items)))
    THEN << Strip(Head(items)) >> \o StripAll(Tail(items))
    ELSE StripAll(Tail(items))

\* lines 232-234: the cleaned list, or what the comprehension raised: an
\* item that is no str has no strip
CleanQueries(value) ==
    IF ~Iterable(value) THEN Raised("TypeError")
    ELSE LET items == Iterate(value)
         IN  IF \E k \in 1..Len(items) : ~isinstance(items[k], "str")
             THEN Raised("AttributeError")
             ELSE IF StripAll(items) = << >> THEN PyList(<< DefaultQuery >>)
             ELSE PyList(StripAll(items))

\* The strings the tool is called with.
Texts ==
    { << >>, << " " >>, << "a" >>, << " ", "a" >>, << "a", " " >>,
      << "a", " ", "b" >>, << " ", "a", "b", " " >> }

Items == { PyStr(t) : t \in Texts } \cup { PyInt(7), PyNone }

Lists == UNION { { PyList(items) : items \in [1..n -> Items] } : n \in 0..MaxItems }

Values == Items \cup Lists

Dicts ==
    { PyDict("queries_json", value) :
        value \in Values \cup { JsonText(v, FALSE) : v \in Values } }
    \cup { PyDict("q", PyInt(7)) }

QueryInputs ==
    { PyStr(t) : t \in Texts }
    \cup { JsonText(value, padded) :
             value \in Values \cup Dicts \cup { JsonText(v, FALSE) : v \in Values },
             padded \in BOOLEAN }

InitParse ==
    /\ query_input \in QueryInputs
    /\ queries = PyList(<< >>)
    /\ mainPc = "parse"
    /\ submitted = 0
    /\ taskState = << >>
    /\ taskResult = << >>
    /\ all_search_results = << >>
    /\ collectOrder = << >>

\* lines 206-229
ParseInput ==
    /\ mainPc = "parse"
    /\ queries' = ParseQueryInput(query_input)
    /\ mainPc' = "cleanup"
    /\ UNCHANGED << query_input, submitted, taskState, taskResult, all_search_results,
                    collectOrder >>

\* lines 232-234
CleanUp ==
    /\ mainPc = "cleanup"
    /\ LET cleaned == CleanQueries(queries)
       IN  IF IsRaised(cleaned)
           THEN mainPc' = "raised" /\ queries' = queries
           ELSE mainPc' = "parsed" /\ queries' = cleaned
    /\ UNCHANGED << query_input, submitted, taskState, taskResult, all_search_results,
                    collectOrder >>

InitFanOut ==
    /\ \E n \in 1..MaxQueries : queries \in QueryLists(n)
    /\ query_input = QueryInputOf(queries)
    /\ mainPc = "submit"
    /\ submitted = 0
    /\ taskState = [i \in Tasks |-> "new"]
    /\ taskResult = << >>
    /\ all_search_results = << >>
    /\ collectOrder = << >>

\* lines 245-248: one executor.submit per sub-query
Submit ==
    /\ mainPc = "submit"
    /\ submitted' = submitted + 1
    /\ taskState' = [taskState EXCEPT ![submitted + 1] = "queued"]
    /\ mainPc' = IF submitted + 1 = NumQueries THEN "collect" ELSE "submit"
    /\ UNCHANGED << query_input, queries, taskResult, all_search_results, collectOrder >>

\* A pool thread takes the oldest queued task.
Start(i) ==
    /\ taskState[i] = "queued"
    /\ \A j \in 1..(i - 1) : taskState[j] # "queued"
    /\ Cardinality(Busy) < PoolSize
    /\ taskState' = [taskState EXCEPT ![i] = "running"]
    /\ UNCHANGED << query_input, queries, mainPc, submitted, taskResult, all_search_results,
                    collectOrder >>

\* The task's execute_dual_track_search call ends.
Finish(i) ==
    /\ taskState[i] = "running"
    /\ \E env \in FanOutEnvsOf(i) :
          taskResult' = (i :> ExecuteDualTrackSearch(queries[i], SearchId(i), env))
                        @@ taskResult
    /\ taskState' = [taskState EXCEPT ![i] = "finished"]
    /\ UNCHANGED << query_input, queries, mainPc, submitted, all_search_results, collectOrder >>

\* A service call of the task never answers (no call carries a timeout).
Hang(i) ==
    /\ taskState[i] = "running"
    /\ taskState' = [taskState EXCEPT ![i] = "hung"]
    /\ UNCHANGED << query_input, queries, mainPc, submitted, taskResult, all_search_results,
                    collectOrder >>

\* line 257
search_id_to_order == [sid \in {SearchId(k) : k \in Tasks} |-> CHOOSE k \in Tasks : SearchId(k) = sid]

\* line 258: the sort key (0-based order, 999 for an unknown id)
OrderKey(x) ==
    LET sid == Get(x, "search_id", "Q999")
    IN  IF sid \in DOMAIN search_id_to_order THEN search_id_to_order[sid] - 1
        ELSE UnknownOrder

RECURSIVE InsertByOrder(_, _)
InsertByOrder(sorted, x) ==
    IF sorted = << >> THEN << x >>
    ELSE IF OrderKey(Head(sorted)) <= OrderKey(x)
         THEN << Head(sorted) >> \o InsertByOrder(Tail(sorted), x)
         ELSE << x >> \o sorted

\* The collected list left in completion order.
Unsorted(results) == results

\* line 258: list.sort is stable and ascending
RECURSIVE SortByQueryOrder(_)
SortByQueryOrder(results) ==
    IF results = << >> THEN << >>
    ELSE InsertByOrder(SortByQueryOrder(SubSeq(results, 1, Len(results) - 1)),
                       results[Len(results)])

\* A collection that keeps only the searches that did not fail.
AppendUnlessError(results, result) ==
    IF "error" \in DOMAIN result THEN results ELSE Append(results, result)

\* line 254
AppendResult(results, result) == Append(results, result)

\* lines 252-258: as_completed hands over a completed future; future.result()
\* returns its value or raises its exception again; the loop ends with the
\* last future and the list is sorted.
Collect(i) ==
    /\ mainPc = "collect"
    /\ taskState[i] = "finished"
    /\ taskState' = [taskState EXCEPT ![i] = "collected"]
    /\ collectOrder' = Append(collectOrder, i)
    /\ IF IsRaised(taskResult[i])
       THEN /\ mainPc' = "raised"
            /\ UNCHANGED all_search_results
       ELSE LET collected == AppendResult(all_search_results, taskResult[i])
                last == \A j \in Tasks \ {i} : taskState[j] = "collected"
            IN  /\ all_search_results' =
                      IF last THEN SortByQueryOrder(collected) ELSE collected
                /\ mainPc' = IF last THEN "done" ELSE "collect"
    /\ UNCHANGED << query_input, queries, submitted, taskResult >>

IdleFanOut ==
    /\ queries = << >>
    /\ query_input = QueryInputOf(queries)
    /\ mainPc = "idle"
    /\ submitted = 0
    /\ taskState = << >>
    /\ taskResult = << >>
    /\ all_search_results = << >>
    /\ collectOrder = << >>

(***************************************************************************)
(* execute_dual_track_search, lines 84-186, one step per statement that    *)
(* other threads can interleave with.                                      *)
(***************************************************************************)
exQuery == "sub-query 1"

exSearchId == SearchId(1)

TrackNames == {"simple", "title"}

InitExec ==
    /\ exEnv \in ExecEnvs
    /\ exPc = "embed"
    /\ track = [t \in TrackNames |-> "new"]
    /\ rerankCall = "new"
    /\ exPending = ""
    /\ simple_results = << >>
    /\ title_results = << >>
    /\ combined_results = << >>
    /\ final_results = << >>
    /\ exResult = << >>

IdleExec ==
    /\ exEnv = << >>
    /\ exPc = "idle"
    /\ track = << >>
    /\ rerankCall = "new"
    /\ exPending = ""
    /\ simple_results = << >>
    /\ title_results = << >>
    /\ combined_results = << >>
    /\ final_results = << >>
    /\ exResult = << >>

\* line 91: vo.embed
ExEmbed ==
    /\ exPc = "embed"
    /\ IF exEnv.embed = "raise"
       THEN exPc' = "except" /\ exPending' = "embedding"
       ELSE exPc' = "submit_simple" /\ UNCHANGED exPending
    /\ UNCHANGED << exEnv, track, rerankCall, simple_results, title_results, combined_results,
                    final_results, exResult >>

\* lines 104-106: the inner pool has two threads, a submitted call starts
ExSubmitSimple ==
    /\ exPc = "submit_simple"
    /\ track' = [track EXCEPT !["simple"] = "running"]
    /\ exPc' = "submit_title"
    /\ UNCHANGED << exEnv, rerankCall, exPending, simple_results, title_results,
                    combined_results, final_results, exResult >>

\* lines 109-112
ExSubmitTitle ==
    /\ exPc = "submit_title"
    /\ track' = [track EXCEPT !["title"] = "running"]
    /\ exPc' = "join_simple"
    /\ UNCHANGED << exEnv, rerankCall, exPending, simple_results, title_results,
                    combined_results, final_results, exResult >>

\* supabase.rpc(...).execute() of one track returns or raises
TrackEnds(t) ==
    /\ exPc # "idle"
    /\ track[t] = "running"
    /\ track' = [track EXCEPT ![t] = IF exEnv[t].raises THEN "raised" ELSE "returned"]
    /\ UNCHANGED << exEnv, exPc, rerankCall, exPending, simple_results, title_results,
                    combined_results, final_results, exResult >>

\* line 115: future_simple.result().data or []
ExJoinSimple ==
    /\ exPc = "join_simple"
    /\ track["simple"] \in {"returned", "raised"}
    /\ IF track["simple"] = "raised"
       THEN /\ exPc' = "pool_exit"
            /\ exPending' = "simple_hybrid_search"
            /\ UNCHANGED simple_results
       ELSE /\ exPc' = "join_title"
            /\ simple_results' = exEnv.simple.data
            /\ UNCHANGED exPending
    /\ UNCHANGED << exEnv, track, rerankCall, title_results, combined_results, final_results,
                    exResult >>

\* line 116: future_title.result().data or []
ExJoinTitle ==
    /\ exPc = "join_title"
    /\ track["title"] \in {"returned", "raised"}
    /\ IF track["title"] = "raised"
       THEN /\ exPending' = "title_filtered_search"
            /\ UNCHANGED title_results
       ELSE /\ title_results' = exEnv.title.data
            /\ UNCHANGED exPending
    /\ exPc' = "pool_exit"
    /\ UNCHANGED << exEnv, track, rerankCall, simple_results, combined_results, final_results,
                    exResult >>

\* A pool that is left without waiting for its calls.
PoolLeftAtOnce == TRUE

\* line 102: ThreadPoolExecutor.__exit__ is shutdown(wait=True), it returns
\* when both submitted calls have ended
PoolJoined == \A t \in TrackNames : track[t] \in {"returned", "raised"}

\* line 102: leaving the with block waits for both calls (shutdown(wait=True)),
\* then a pending exception goes on to the except clause
ExPoolExit ==
    /\ exPc = "pool_exit"
    /\ PoolJoined
    /\ exPc' = IF exPending # "" THEN "except" ELSE "combine"
    /\ UNCHANGED << exEnv, track, rerankCall, exPending, simple_results, title_results,
                    combined_results, final_results, exResult >>

\* lines 118-126
ExCombine ==
    /\ exPc = "combine"
    /\ combined_results' = CombineResults(simple_results, title_results)
    /\ exPc' = "rerank"
    /\ UNCHANGED << exEnv, track, rerankCall, exPending, simple_results, title_results,
                    final_results, exResult >>

\* lines 129-163: the documents are listed (a KeyError goes to the outer
\* except), then rerank, or the similarity fallback when co.rerank raises
ExRerank ==
    /\ exPc = "rerank"
    /\ IF DocumentsRaise(combined_results)
       THEN /\ exPending' = "KeyError: 'content'"
            /\ exPc' = "except"
            /\ UNCHANGED << final_results, rerankCall >>
       ELSE /\ final_results' = FinalResults(combined_results, exEnv.rerank)
            /\ rerankCall' = IF combined_results = << >> THEN "skipped"
                             ELSE IF exEnv.rerank = "raise" THEN "raised"
                             ELSE "returned"
            /\ exPc' = "return"
            /\ UNCHANGED exPending
    /\ UNCHANGED << exEnv, track, simple_results, title_results, combined_results,
                    exResult >>

\* lines 165-175
ExReturn ==
    /\ exPc = "return"
    /\ exResult' = SearchSucceeded(exQuery, exSearchId, combined_results, final_results)
    /\ exPc' = "returned"
    /\ UNCHANGED << exEnv, track, rerankCall, exPending, simple_results, title_results,
                    combined_results, final_results >>

\* The pending exception leaves the function.
ExPropagate ==
    /\ exPc = "except"
    /\ exResult' = Raised(exPending)
    /\ exPc' = "raised"
    /\ UNCHANGED << exEnv, track, rerankCall, exPending, simple_results, title_results,
                    combined_results, final_results >>

\* lines 177-186: except Exception
ExExcept ==
    /\ exPc = "except"
    /\ exResult' = SearchFailed(exQuery, exSearchId, exPending)
    /\ exPc' = "returned"
    /\ UNCHANGED << exEnv, track, rerankCall, exPending, simple_results, title_results,
                    combined_results, final_results >>

(***************************************************************************)
(* SSECallbackHandler, lines 35-63.                                        *)
(***************************************************************************)
\* line 41: start_marker
Marker == "Final Answer:"

\* line 57: self.marker in self.buffer
Contains(text, sub) ==
    \E i \in 1..(Len(text) - Len(sub) + 1) : SubSeq(text, i, i + Len(sub) - 1) = sub

\* where str.split(sub, 1) cuts: the first occurrence
FirstIndex(text, sub) ==
    CHOOSE i \in 1..(Len(text) - Len(sub) + 1) :
        /\ SubSeq(text, i, i + Len(sub) - 1) = sub
        /\ \A j \in 1..(i - 1) : SubSeq(text, j, j + Len(sub) - 1) # sub

\* A cut that keeps the marker.
FromMarker(text) == SubSeq(text, FirstIndex(text, Marker), Len(text))

\* line 59: self.buffer.split(self.marker, 1)[1]
AfterMarker(text) == SubSeq(text, FirstIndex(text, Marker) + Len(Marker), Len(text))

\* Items of the token queue: a token, or the None that ends the stream.
Tok(text) == [token |-> text]

None == [none |-> TRUE]

IsNone(item) == "none" \in DOMAIN item

\* server.py lines 63-64: Queue() is Queue(maxsize=0), a queue without limit
QueueMaxsize == 0

\* A queue that holds one item at most.
RoomForOne(q) == Len(q) < 1

\* queue.Queue.put waits while the queue is full
NotFull(q) == QueueMaxsize <= 0 \/ Len(q) < QueueMaxsize

\* queue.Queue.put
QueuePut(q, item) == Append(q, item)

\* A get that hands out the newest item.
QueueGetNewest(q) == [item |-> q[Len(q)], rest |-> SubSeq(q, 1, Len(q) - 1)]

\* queue.Queue.get, get_nowait: the oldest item
QueueGet(q) == [item |-> Head(q), rest |-> Tail(q)]

\* The handler as it would be without line 63: the marker is looked for again
\* in the buffer at every token.
OnLlmNewTokenRescan(h, tok) ==
    LET buf == h.buffer \o tok
    IN  IF Contains(buf, Marker)
        THEN [q |-> IF AfterMarker(buf) # ""
                    THEN QueuePut(h.q, Tok(AfterMarker(buf)))
                    ELSE h.q,
              buffer |-> buf,
              started |-> FALSE]
        ELSE [h EXCEPT !.buffer = buf]

\* lines 48-63, h the handler with its queue
OnLlmNewToken(h, tok) ==
    IF h.started
    THEN [h EXCEPT !.q = QueuePut(h.q, Tok(tok))]
    ELSE LET buf == h.buffer \o tok
         IN  IF Contains(buf, Marker)
             THEN [q |-> IF AfterMarker(buf) # ""
                         THEN QueuePut(h.q, Tok(AfterMarker(buf)))
                         ELSE h.q,
                   buffer |-> buf,
                   started |-> TRUE]
             ELSE [h EXCEPT !.buffer = buf]

\* The tokens a model may produce.
TokenSet ==
    { "Thought: x", "Final", " Answer:", "Final Answer:", " Hello",
      "Final Answer: Hi", "x Final Ans", "wer: y", "" }

Streams(tokens, maxLen) == UNION { [1..n -> tokens] : n \in 0..maxLen }

InitGate ==
    /\ genStream \in Streams(TokenSet, MaxTokens)
    /\ genPos = 0
    /\ buffer = ""
    /\ started = FALSE
    /\ token_queue = << >>

\* The model produces its next token and the handler is called with it.
CallOnLlmNewToken ==
    /\ genPos < Len(genStream)
    /\ LET h == OnLlmNewToken([q |-> token_queue, buffer |-> buffer, started |-> started],
                              genStream[genPos + 1])
       IN  /\ h.q # token_queue => NotFull(token_queue)
           /\ token_queue' = h.q
           /\ buffer' = h.buffer
           /\ started' = h.started
    /\ genPos' = genPos + 1
    /\ UNCHANGED genStream

(***************************************************************************)
(* ask_stream, Backend/server.py lines 60-134: worker() and stream().      *)
(***************************************************************************)
Status(s) == [type |-> "status", status |-> s]

Answer(chunk) == [type |-> "answer", chunk |-> chunk]

UserTurn == [role |-> "user", content |-> "query"]

AssistantTurn == [role |-> "assistant", content |-> "answer"]

\* The tokens of the request's model: the marker comes split over two tokens.
StreamTokens == { "Final", " Answer: Hi", " there", "" }

InitRelay ==
    /\ genStream \in Streams(StreamTokens, MaxStreamTokens)
    /\ genPos = 0
    /\ buffer = ""
    /\ started = FALSE
    /\ token_queue = << >>
    /\ status_queue = << >>
    /\ wPc = "record_user"
    /\ cPc = "yield_thinking"
    /\ token = None
    /\ answer_started = FALSE
    /\ emitted = << >>
    /\ CHAT_MEMORY = << >>

IdleStream ==
    /\ genStream = << >>
    /\ genPos = 0
    /\ buffer = ""
    /\ started = FALSE
    /\ token_queue = << >>
    /\ status_queue = << >>
    /\ wPc = "idle"
    /\ cPc = "idle"
    /\ token = None
    /\ answer_started = FALSE
    /\ emitted = << >>
    /\ CHAT_MEMORY = << >>

\* line 71
WRecordUser ==
    /\ wPc = "record_user"
    /\ CHAT_MEMORY' = Append(CHAT_MEMORY, UserTurn)
    /\ wPc' = "put_thinking"
    /\ UNCHANGED << gateVars, status_queue, cPc, token, answer_started, emitted >>

\* line 73
WPutThinking ==
    /\ wPc = "put_thinking"
    /\ NotFull(status_queue)
    /\ status_queue' = QueuePut(status_queue, "thinking")
    /\ wPc' = "put_searching"
    /\ UNCHANGED << gateVars, cPc, token, answer_started, emitted, CHAT_MEMORY >>

\* lines 74-84: the second status, then the prompt is built, the agent starts
WPutSearching ==
    /\ wPc = "put_searching"
    /\ NotFull(status_queue)
    /\ status_queue' = QueuePut(status_queue, "searching")
    /\ wPc' = "run_agent"
    /\ UNCHANGED << gateVars, cPc, token, answer_started, emitted, CHAT_MEMORY >>

\* lines 87-93: during the agent run the handler gets each generated token
WAgentToken ==
    /\ wPc = "run_agent"
    /\ CallOnLlmNewToken
    /\ UNCHANGED relayVars

\* A worker that puts the sentinel without storing the reply.
WAgentReturnsUnstored ==
    /\ wPc = "run_agent"
    /\ genPos = Len(genStream)
    /\ wPc' = "put_sentinel"
    /\ UNCHANGED << gateVars, status_queue, cPc, token, answer_started, emitted,
                    CHAT_MEMORY >>

\* lines 87-93: ask_parallel_enhanced_chatbot returns the answer
WAgentReturns ==
    /\ wPc = "run_agent"
    /\ genPos = Len(genStream)
    /\ wPc' = "store_answer"
    /\ UNCHANGED << gateVars, status_queue, cPc, token, answer_started, emitted,
                    CHAT_MEMORY >>

\* lines 87-93: ask_parallel_enhanced_chatbot raises (a missing key, a failed
\* model call); worker() has no handler, the thread ends
WAgentRaises ==
    /\ wPc = "run_agent"
    /\ wPc' = "raised"
    /\ UNCHANGED << gateVars, status_queue, cPc, token, answer_started, emitted,
                    CHAT_MEMORY >>

\* line 96
WStoreAnswer ==
    /\ wPc = "store_answer"
    /\ CHAT_MEMORY' = Append(CHAT_MEMORY, AssistantTurn)
    /\ wPc' = "put_sentinel"
    /\ UNCHANGED << gateVars, status_queue, cPc, token, answer_started, emitted >>

\* line 98
WPutSentinel ==
    /\ wPc = "put_sentinel"
    /\ NotFull(token_queue)
    /\ token_queue' = QueuePut(token_queue, None)
    /\ wPc' = "put_finished"
    /\ UNCHANGED << genStream, genPos, buffer, started, status_queue, cPc, token,
                    answer_started, emitted, CHAT_MEMORY >>

\* line 99
WPutFinished ==
    /\ wPc = "put_finished"
    /\ NotFull(status_queue)
    /\ status_queue' = QueuePut(status_queue, "finished")
    /\ wPc' = "done"
    /\ UNCHANGED << gateVars, cPc, token, answer_started, emitted, CHAT_MEMORY >>

\* line 106
CYieldThinking ==
    /\ cPc = "yield_thinking"
    /\ emitted' = Append(emitted, Status("thinking"))
    /\ cPc' = "poll"
    /\ UNCHANGED << gateVars, status_queue, wPc, token, answer_started, CHAT_MEMORY >>

\* lines 113-117: token_queue.get hands over an item
CPollToken ==
    /\ cPc = "poll"
    /\ token_queue # << >>
    /\ LET got == QueueGet(token_queue)
       IN  /\ token_queue' = got.rest
           /\ token' = got.item
           /\ cPc' = IF IsNone(got.item) THEN "yield_finished"
                     ELSE IF answer_started THEN "yield_chunk"
                     ELSE "yield_answering"
    /\ UNCHANGED << genStream, genPos, buffer, started, status_queue, wPc,
                    answer_started, emitted, CHAT_MEMORY >>

\* lines 113, 121-122: the queue stayed empty for the timeout
CPollEmpty ==
    /\ cPc = "poll"
    /\ token_queue = << >>
    /\ cPc' = "drain"
    /\ UNCHANGED << gateVars, status_queue, wPc, token, answer_started, emitted,
                    CHAT_MEMORY >>

\* A first token that leaves answer_started unset.
CYieldAnsweringOnly ==
    /\ cPc = "yield_answering"
    /\ emitted' = Append(emitted, Status("answering"))
    /\ cPc' = "yield_chunk"
    /\ UNCHANGED << gateVars, status_queue, wPc, token, answer_started, CHAT_MEMORY >>

\* lines 117-119
CYieldAnswering ==
    /\ cPc = "yield_answering"
    /\ emitted' = Append(emitted, Status("answering"))
    /\ answer_started' = TRUE
    /\ cPc' = "yield_chunk"
    /\ UNCHANGED << gateVars, status_queue, wPc, token, CHAT_MEMORY >>

\* line 120
CYieldChunk ==
    /\ cPc = "yield_chunk"
    /\ emitted' = Append(emitted, Answer(token.token))
    /\ cPc' = "drain"
    /\ UNCHANGED << gateVars, status_queue, wPc, token, answer_started, CHAT_MEMORY >>

\* lines 125-127: one pending status is taken and yielded
CDrainStatus ==
    /\ cPc = "drain"
    /\ status_queue # << >>
    /\ LET got == QueueGet(status_queue)
       IN  /\ status_queue' = got.rest
           /\ emitted' = Append(emitted, Status(got.item))
    /\ UNCHANGED << gateVars, wPc, cPc, token, answer_started, CHAT_MEMORY >>

\* line 125: status_queue.empty(), back to the top of the loop
CDrainDone ==
    /\ cPc = "drain"
    /\ status_queue = << >>
    /\ cPc' = "poll"
    /\ UNCHANGED << gateVars, status_queue, wPc, token, answer_started, emitted,
                    CHAT_MEMORY >>

\* lines 114-115, 130: the sentinel ended the loop
CYieldFinished ==
    /\ cPc = "yield_finished"
    /\ emitted' = Append(emitted, Status("finished"))
    /\ cPc' = "done"
    /\ UNCHANGED << gateVars, status_queue, wPc, token, answer_started, CHAT_MEMORY >>

\* The caller disconnects: the server closes the generator where it stands.
CDisconnect ==
    /\ cPc \notin {"idle", "done", "disconnected"}
    /\ cPc' = "disconnected"
    /\ UNCHANGED << gateVars, status_queue, wPc, token, answer_started, emitted,
                    CHAT_MEMORY >>

Worker ==
    \/ WRecordUser
    \/ WPutThinking
    \/ WPutSearching
    \/ WAgentToken
    \/ WAgentReturns
    \/ WAgentRaises
    \/ WStoreAnswer
    \/ WPutSentinel
    \/ WPutFinished

Consumer ==
    \/ CYieldThinking
    \/ CPollToken
    \/ CPollEmpty
    \/ CYieldAnswering
    \/ CYieldChunk
    \/ CDrainStatus
    \/ CDrainDone
    \/ CYieldFinished

(***************************************************************************)
(* parallel_comprehensive_search, lines 260-350: the groups by record id   *)
(* and the final rerank of the deduplicated chunks.                        *)
(***************************************************************************)
\* lines 261-266: what the defaultdict makes for a record id it has not seen
NewGroup(chunk_id) ==
    [id |-> chunk_id,
     chunk_data |-> None,
     source_queries |-> << >>,
     source_query_ids |-> << >>,
     best_scores |-> [similarity |-> 0, cohere_score |-> 0]]

\* An update that keeps the score seen last.
Latest(best, score) == score

\* An update that keeps the first score seen.
Earliest(best, score) == IF best = 0 THEN score ELSE best

\* lines 295-298: a score takes the place of the best one when it is greater
Better(best, score) == IF score > best THEN score ELSE best

\* A record entering its group whose scores count only from the second
\* appearance on.
TouchAfterFirst(group, search_result, result) ==
    [group EXCEPT
        !.chunk_data = IF IsNone(@) THEN result ELSE @,
        !.source_queries = Append(@, search_result.query),
        !.source_query_ids = Append(@, search_result.search_id),
        !.best_scores =
            IF IsNone(group.chunk_data) THEN @
            ELSE [similarity |-> Better(@.similarity, Get(result, "similarity", 0)),
                  cohere_score |-> Better(@.cohere_score, Get(result, "cohere_score", 0))]]

\* lines 284-298: one record of a sub-query's results enters its group
Touch(group, search_result, result) ==
    [group EXCEPT
        !.chunk_data = IF IsNone(@) THEN result ELSE @,
        !.source_queries = Append(@, search_result.query),
        !.source_query_ids = Append(@, search_result.search_id),
        !.best_scores =
            [similarity |-> Better(@.similarity, Get(result, "similarity", 0)),
             cohere_score |-> Better(@.cohere_score, Get(result, "cohere_score", 0))]]

\* The places <<k, p>> of the records: record p of the results of sub-query k.
Places(search_results) ==
    UNION { {<< k, p >> : p \in 1..Len(search_results[k].results)} :
            k \in 1..Len(search_results) }

\* The order in which the loops of lines 270 and 280 reach the places.
Before(a, b) == a[1] < b[1] \/ (a[1] = b[1] /\ a[2] < b[2])

InLoopOrder(places) ==
    [g \in 1..Cardinality(places) |->
        CHOOSE a \in places : Cardinality({b \in places : Before(b, a)}) = g - 1]

RecordAt(search_results, a) == search_results[a[1]].results[a[2]]

PlacesOf(search_results, chunk_id) ==
    {a \in Places(search_results) : RecordAt(search_results, a).id = chunk_id}

\* lines 280-298 for the records of one id: each record changes the group of
\* its own id only
GroupOf(search_results, chunk_id) ==
    LET seen == InLoopOrder(PlacesOf(search_results, chunk_id))
        F[j \in 0..Len(seen)] ==
            IF j = 0 THEN NewGroup(chunk_id)
            ELSE Touch(F[j - 1], search_results[seen[j][1]],
                       RecordAt(search_results, seen[j]))
    IN  F[Len(seen)]

\* lines 270-298: chunk_groups after both loops; the defaultdict keeps the ids
\* in the order in which they were first looked up
GroupChunks(search_results) ==
    LET first == {a \in Places(search_results) :
                     \A b \in PlacesOf(search_results, RecordAt(search_results, a).id) :
                         ~Before(b, a)}
        ids == InLoopOrder(first)
    IN  [g \in 1..Len(ids) |-> GroupOf(search_results, RecordAt(search_results, ids[g]).id)]

\* set(...) of a list
SetOf(list) == {list[p] : p \in DOMAIN list}

\* A conversion that counts the distinct sub-query texts as the retrievals.
ToChunkCountingTexts(group) ==
    [retrieved_by_queries |-> SetOf(group.source_queries),
     retrieved_by_query_ids |-> SetOf(group.source_query_ids),
     retrieval_count |-> Cardinality(SetOf(group.source_queries)),
     unique_query_count |-> Cardinality(SetOf(group.source_queries)),
     best_similarity |-> group.best_scores.similarity,
     best_cohere_score |-> group.best_scores.cohere_score] @@ group.chunk_data

\* lines 303-313: the group's record with the deduplication metadata
ToChunk(group) ==
    [retrieved_by_queries |-> SetOf(group.source_queries),
     retrieved_by_query_ids |-> SetOf(group.source_query_ids),
     retrieval_count |-> Len(group.source_queries),
     unique_query_count |-> Cardinality(SetOf(group.source_queries)),
     best_similarity |-> group.best_scores.similarity,
     best_cohere_score |-> group.best_scores.cohere_score] @@ group.chunk_data

\* lines 301-315: the groups that hold a record, in insertion order
ConvertGroups(groups) ==
    LET kept == SelectSeq(groups, LAMBDA group : ~IsNone(group.chunk_data))
    IN  [g \in 1..Len(kept) |-> ToChunk(kept[g])]

\* The group keeps the record of the first place itself, not a copy of it.
FirstPlaceOf(search_results, chunk_id) ==
    {a \in PlacesOf(search_results, chunk_id) :
        \A b \in PlacesOf(search_results, chunk_id) : ~Before(b, a)}

\* line 285: the places of the sub-query results whose record is the same
\* object as the chunk_data of the id's group: none, result.copy() is a new dict
AliasesOf(search_results, chunk_id) == {}

\* lines 306-313, 341-342: a value written to a chunk is written to every
\* record that is the same object
WriteBack(search_results, chunks) ==
    [k \in 1..Len(search_results) |->
        [search_results[k] EXCEPT
            !.results =
                [p \in 1..Len(search_results[k].results) |->
                    LET record == search_results[k].results[p]
                    IN  IF << k, p >> \in AliasesOf(search_results, record.id)
                        THEN chunks[CHOOSE g \in 1..Len(chunks) : chunks[g].id = record.id]
                        ELSE record]]]

\* lines 303-315: the metadata is written to the group's own record, so the
\* group and the deduplicated list hold the same object
ShareChunks(groups, chunks) ==
    [g \in 1..Len(groups) |-> [groups[g] EXCEPT !.chunk_data = chunks[g]]]

\* line 334: top_n of the final rerank; line 348; line 350
FinalRerankTopN == 10
FinalFallbackTopN == 12
SingleQueryTopN == 8

\* lines 340-343: the chunks after the loop; the score and the rank are
\* written to the chunk at the response's index (the last write stays)
WriteFinalRank(chunks, results) ==
    [i \in 1..Len(chunks) |->
        LET at == {p \in 1..Len(results) : results[p].index = i}
        IN  IF at = {} THEN chunks[i]
            ELSE LET p == CHOOSE x \in at : \A y \in at : y <= x
                 IN  SetKey(SetKey(chunks[i], "final_cohere_score",
                                   results[p].relevance_score),
                            "final_rank", p)]

\* A list of final chunks in the order of the deduplicated list.
TakeInListOrder(chunks, results) == SubSeq(chunks, 1, Len(results))

\* lines 339-344: final_chunks, one entry per response entry
TakeRanked(chunks, results) == [p \in 1..Len(results) |-> chunks[results[p].index]]

\* A list that is not cut.
Uncut(list, n) == list

\* A cut that keeps the end of the list.
LastN(list, n) == SubSeq(list, Len(list) + 1 - Min(n, Len(list)), Len(list))

FirstN(list, n) == SubSeq(list, 1, Min(n, Len(list)))

\* A final rerank for any number of sub-queries.
FinalRerankAlways == deduplicated_chunks # << >>

\* line 322
FinalRerankWanted == Len(queries) > 1 /\ deduplicated_chunks # << >>

\* The services' answers to the sub-queries of an aggregated fan-out.
Answers(simple, title, rerank) ==
    [embed |-> "ok",
     simple |-> [raises |-> FALSE, data |-> simple],
     title |-> [raises |-> FALSE, data |-> title],
     rerank |-> rerank]

AggEnvs ==
    { Answers(<< Rec(2, 55), Rec(1, 60) >>, << Rec(1, 70) >>, "keep"),
      Answers(<< Rec(1, 70) >>, << Rec(3, 80), Rec(2, 45) >>, "raise"),
      Answers(Rows(<< 10, 11, 12, 13, 14, 15 >>, 90), Rows(<< 15, 16, 17, 18, 19, 20 >>, 60),
              "keep"),
      Answers(Rows(<< 21, 22, 23, 24, 25, 26 >>, 50), << >>, "reverse"),
      Answers(<< >>, << >>, "keep"),
      [embed |-> "raise",
       simple |-> [raises |-> FALSE, data |-> << >>],
       title |-> [raises |-> FALSE, data |-> << >>],
       rerank |-> "keep"],
      [embed |-> "ok",
       simple |-> [raises |-> TRUE, data |-> << >>],
       title |-> [raises |-> FALSE, data |-> << Rec(1, 70) >>],
       rerank |-> "keep"] }

\* The fan-out has ended (lines 243-258): the list holds the result of each
\* sub-query at its position.
InitAgg ==
    /\ \E n \in 1..MaxAggQueries : queries \in QueryLists(n)
    /\ query_input = QueryInputOf(queries)
    /\ aggEnv \in [Tasks -> AggEnvs]
    /\ all_search_results =
          [k \in Tasks |-> ExecuteDualTrackSearch(queries[k], SearchId(k), aggEnv[k])]
    /\ mainPc = "done"
    /\ submitted = NumQueries
    /\ taskState = [i \in Tasks |-> "collected"]
    /\ taskResult = all_search_results
    /\ collectOrder = [i \in Tasks |-> i]
    /\ aggPc = "group"
    /\ chunk_groups = << >>
    /\ deduplicated_chunks = << >>
    /\ final_rerank = None
    /\ final_chunks = << >>
    /\ formatted_results = << >>
    /\ report = None

IdleAgg ==
    /\ aggPc = "idle"
    /\ aggEnv = << >>
    /\ chunk_groups = << >>
    /\ deduplicated_chunks = << >>
    /\ final_rerank = None
    /\ final_chunks = << >>
    /\ formatted_results = << >>
    /\ report = None

\* lines 261-298
AggGroup ==
    /\ aggPc = "group"
    /\ chunk_groups' = GroupChunks(all_search_results)
    /\ aggPc' = "convert"
    /\ UNCHANGED << aggEnv, deduplicated_chunks, final_rerank, final_chunks,
                    formatted_results, report >>

\* lines 301-315
AggConvert ==
    /\ aggPc = "convert"
    /\ deduplicated_chunks' = ConvertGroups(chunk_groups)
    /\ chunk_groups' = ShareChunks(chunk_groups, deduplicated_chunks')
    /\ all_search_results' = WriteBack(all_search_results, deduplicated_chunks')
    /\ aggPc' = "final"
    /\ UNCHANGED << aggEnv, final_rerank, final_chunks, formatted_results, report >>

\* lines 322-344: the final rerank call returns
AggFinalRerank ==
    /\ aggPc = "final"
    /\ FinalRerankWanted
    /\ \E how \in RerankOutcomes \ {"raise"} :
          LET m == Len(deduplicated_chunks)
              results == RerankResults(how, m, Min(FinalRerankTopN, m))
          IN  /\ final_rerank' = [results |-> results]
              /\ deduplicated_chunks' = WriteFinalRank(deduplicated_chunks, results)
              /\ final_chunks' = TakeRanked(deduplicated_chunks', results)
    /\ chunk_groups' = ShareChunks(chunk_groups, deduplicated_chunks')
    /\ all_search_results' = WriteBack(all_search_results, deduplicated_chunks')
    /\ aggPc' = "format"
    /\ UNCHANGED << aggEnv, formatted_results, report >>

\* lines 346-348: the final rerank call raises
AggFinalRerankFails ==
    /\ aggPc = "final"
    /\ FinalRerankWanted
    /\ final_rerank' = Raised("rerank")
    /\ final_chunks' = FirstN(deduplicated_chunks, FinalFallbackTopN)
    /\ aggPc' = "format"
    /\ UNCHANGED << aggEnv, chunk_groups, deduplicated_chunks, formatted_results,
                    report >>

\* lines 349-350: one sub-query, or nothing to rerank
AggNoFinalRerank ==
    /\ aggPc = "final"
    /\ ~FinalRerankWanted
    /\ final_chunks' = FirstN(deduplicated_chunks, SingleQueryTopN)
    /\ aggPc' = "format"
    /\ UNCHANGED << aggEnv, chunk_groups, deduplicated_chunks, final_rerank,
                    formatted_results, report >>

\* lines 322-350 as a function of the deduplicated chunks and of what the
\* final rerank call does (how): the final list
FinalChunksOf(qs, chunks, how) ==
    IF Len(qs) > 1 /\ chunks # << >>
    THEN IF how = "raise"
         THEN FirstN(chunks, FinalFallbackTopN)
         ELSE LET results == RerankResults(how, Len(chunks),
                                           Min(FinalRerankTopN, Len(chunks)))
              IN  TakeRanked(WriteFinalRank(chunks, results), results)
    ELSE FirstN(chunks, SingleQueryTopN)

\* The content cut and marked whatever its length.
AlwaysEllipsis(chunk) ==
    LET content == Get(chunk, "content", "")
    IN  SubSeq(content, 1, Min(Len(content), ContentLimit)) \o "..."

\* line 360
FormatContent(chunk) ==
    LET content == Get(chunk, "content", "")
    IN  IF Len(content) > ContentLimit
        THEN SubSeq(content, 1, ContentLimit) \o "..."
        ELSE content

\* chunk.get(key): a key whose value is None is left out of the record
CopyKey(formatted, to, chunk, key) ==
    IF key \in DOMAIN chunk THEN SetKey(formatted, to, chunk[key]) ELSE formatted

\* lines 355-376; round(score, 3) leaves a score in hundredths as it is
FormatChunk(chunk) ==
    CopyKey(CopyKey(CopyKey(CopyKey(
        [chunk_id |-> chunk.id,
         content |-> FormatContent(chunk),
         similarity_score |-> Get(chunk, "similarity", 0),
         cohere_score |-> Get(chunk, "cohere_score", 0),
         best_similarity |-> Get(chunk, "best_similarity", 0),
         best_cohere_score |-> Get(chunk, "best_cohere_score", 0),
         final_cohere_score |-> Get(chunk, "final_cohere_score", 0),
         retrieved_by_queries |-> Get(chunk, "retrieved_by_queries", {}),
         retrieved_by_query_ids |-> Get(chunk, "retrieved_by_query_ids", {}),
         retrieval_count |-> Get(chunk, "retrieval_count", 1),
         unique_query_count |-> Get(chunk, "unique_query_count", 1),
         is_duplicate_found |-> Get(chunk, "retrieval_count", 1) > 1],
        "final_rank", chunk, "final_rank"),
        "source_url", chunk, "source_url"),
        "page_title", chunk, "page_title"),
        "topic_heading", chunk, "topic_heading")

\* lines 353-377
AggFormat ==
    /\ aggPc = "format"
    /\ formatted_results' = [p \in 1..Len(final_chunks) |-> FormatChunk(final_chunks[p])]
    /\ aggPc' = "report"
    /\ UNCHANGED << aggEnv, chunk_groups, deduplicated_chunks, final_rerank, final_chunks,
                    report >>

\* A count of the record ids instead of the records.
TotalOfUnique(search_results) ==
    Cardinality({RecordAt(search_results, a).id : a \in Places(search_results)})

\* lines 384, 386: sum(len(sr['results']) for sr in all_search_results)
TotalChunks(search_results) == Cardinality(Places(search_results))

\* lines 389-396; an error that is None is left out
QueryDetails(search_results) ==
    [k \in 1..Len(search_results) |->
        CopyKey([query |-> search_results[k].query,
                 search_id |-> search_results[k].search_id,
                 results_count |-> Len(search_results[k].results)],
                "error", search_results[k], "error")]

\* lines 380-401
SearchSummary(qs, search_results, chunks, final, formatted) ==
    [total_queries |-> Len(qs),
     parsed_queries |-> qs,
     deduplication_stats |->
        [total_chunks_before |-> TotalChunks(search_results),
         unique_chunks_after |-> Len(chunks),
         duplicates_removed |-> TotalChunks(search_results) - Len(chunks),
         chunks_found_multiple_times |->
            Cardinality({p \in 1..Len(final) : Get(final[p], "retrieval_count", 1) > 1})],
     query_details |-> QueryDetails(search_results),
     results |-> formatted,
     total_results |-> Len(formatted)]

\* A report that is the summary whatever the results are.
SummaryOnly(qs, summary) == summary

\* lines 407-415: what json.dumps is given
Report(qs, summary) ==
    IF summary.results = << >>
    THEN [status |-> "not_found",
          message |-> "No relevant information found for any of the queries.",
          queries |-> qs,
          search_summary |-> summary]
    ELSE summary

\* lines 380-415
AggReport ==
    /\ aggPc = "report"
    /\ report' = Report(queries, SearchSummary(queries, all_search_results,
                                               deduplicated_chunks, final_chunks,
                                               formatted_results))
    /\ aggPc' = "returned"
    /\ UNCHANGED << aggEnv, chunk_groups, deduplicated_chunks, final_rerank, final_chunks,
                    formatted_results >>

(***************************************************************************)
\* lines 353-415 as a function of the sorted list of sub-query results, of
\* the deduplicated chunks and of the final list: the report
ReportOf(qs, search_results, chunks, final) ==
    LET formatted == [p \in 1..Len(final) |-> FormatChunk(final[p])]
    IN  Report(qs, SearchSummary(qs, search_results, chunks, final, formatted))

(***************************************************************************)
(* Requests of one chat_id on concurrent threads, Backend/server.py lines  *)
(* 28, 69-99, 136-150 (app.run(threaded=True), one thread per worker()).   *)
(***************************************************************************)
MaxRequests == 2

Requests == 1..MaxRequests

\* lines 71, 96, 148, 149: the turn of a request; the content stands for the
\* request's own query or answer
TurnOf(role, r) == [role |-> role, content |-> r]

\* No list object: the chat_id is not a key of CHAT_MEMORY, or the thread
\* holds no list.
NoList == None

\* The list object that list() built on the thread of request r.
ListOf(r) == [list |-> r]

\* line 71 is the first statement of worker(); /ask calls the agent first
FirstStep(kind) == IF kind = "ask_stream" THEN "subscript_user" ELSE "agent"

InitSession ==
    /\ reqKind \in [Requests -> {"ask", "ask_stream"}]
    /\ reqPc = [r \in Requests |-> FirstStep(reqKind[r])]
    /\ reqList = [r \in Requests |-> NoList]
    /\ session_entry = NoList
    /\ turn_lists = [r \in Requests |-> << >>]

IdleSession ==
    /\ reqKind = << >>
    /\ reqPc = << >>
    /\ reqList = << >>
    /\ session_entry = NoList
    /\ turn_lists = << >>

RoleAt(pc) == IF pc \in {"subscript_user", "missing_user", "append_user"}
              THEN "user" ELSE "assistant"

\* lines 71, 96, 148, 149: CHAT_MEMORY[chat_id] when the key is there
Subscript(r) ==
    /\ reqPc[r] \in {"subscript_user", "subscript_assistant"}
    /\ session_entry # NoList
    /\ reqList' = [reqList EXCEPT ![r] = session_entry]
    /\ reqPc' = [reqPc EXCEPT ![r] = "append_" \o RoleAt(reqPc[r])]
    /\ UNCHANGED << reqKind, session_entry, turn_lists >>

\* line 28 with lines 71, 96, 148, 149: CHAT_MEMORY[chat_id] when the key is
\* missing: defaultdict calls list() for a new list object, not yet stored
Missing(r) ==
    /\ reqPc[r] \in {"subscript_user", "subscript_assistant"}
    /\ session_entry = NoList
    /\ reqList' = [reqList EXCEPT ![r] = ListOf(r)]
    /\ reqPc' = [reqPc EXCEPT ![r] = "missing_" \o RoleAt(reqPc[r])]
    /\ UNCHANGED << reqKind, session_entry, turn_lists >>

\* line 28: defaultdict stores the new list under the key and returns it
StoreDefault(r) ==
    /\ reqPc[r] \in {"missing_user", "missing_assistant"}
    /\ session_entry' = reqList[r]
    /\ reqPc' = [reqPc EXCEPT ![r] = "append_" \o RoleAt(reqPc[r])]
    /\ UNCHANGED << reqKind, reqList, turn_lists >>

\* lines 71, 96, 148, 149: .append(turn) on the list object in hand
AppendTurn(r) ==
    /\ reqPc[r] \in {"append_user", "append_assistant"}
    /\ turn_lists' = [turn_lists EXCEPT
                         ![reqList[r].list] = Append(@, TurnOf(RoleAt(reqPc[r]), r))]
    /\ reqPc' = [reqPc EXCEPT
                    ![r] = IF reqPc[r] = "append_assistant" THEN "done"
                           ELSE IF reqKind[r] = "ask_stream" THEN "agent"
                           ELSE "subscript_assistant"]
    /\ UNCHANGED << reqKind, reqList, session_entry >>

\* lines 87-93, 139-144: ask_parallel_enhanced_chatbot returns the answer
ReqAgentReturns(r) ==
    /\ reqPc[r] = "agent"
    /\ reqPc' = [reqPc EXCEPT
                    ![r] = IF reqKind[r] = "ask_stream" THEN "subscript_assistant"
                           ELSE "subscript_user"]
    /\ UNCHANGED << reqKind, reqList, session_entry, turn_lists >>

\* lines 87-93, 139-144: ask_parallel_enhanced_chatbot raises, the request's
\* thread ends
ReqAgentRaises(r) ==
    /\ reqPc[r] = "agent"
    /\ reqPc' = [reqPc EXCEPT ![r] = "raised"]
    /\ UNCHANGED << reqKind, reqList, session_entry, turn_lists >>

(* Specifications.                                                         *)
(***************************************************************************)
\* The fan-out of parallel_comprehensive_search.
Init == InitFanOut /\ IdleExec /\ IdleStream /\ IdleAgg /\ IdleSession

Next ==
    \/ Submit /\ UNCHANGED << execVars, streamVars, aggVars, sessionVars >>
    \/ \E i \in Tasks : Start(i) /\ UNCHANGED << execVars, streamVars, aggVars, sessionVars >>
    \/ \E i \in Tasks : Finish(i) /\ UNCHANGED << execVars, streamVars, aggVars, sessionVars >>
    \/ \E i \in Tasks : Hang(i) /\ UNCHANGED << execVars, streamVars, aggVars, sessionVars >>
    \/ \E i \in Tasks : Collect(i) /\ UNCHANGED << execVars, streamVars, aggVars, sessionVars >>

Spec == Init /\ [][Next]_vars

\* One execute_dual_track_search call.
ExecInit == IdleFanOut /\ InitExec /\ IdleStream /\ IdleAgg /\ IdleSession

ExecNext ==
    \/ ExEmbed /\ UNCHANGED << fanVars, streamVars, aggVars, sessionVars >>
    \/ ExSubmitSimple /\ UNCHANGED << fanVars, streamVars, aggVars, sessionVars >>
    \/ ExSubmitTitle /\ UNCHANGED << fanVars, streamVars, aggVars, sessionVars >>
    \/ \E t \in TrackNames : TrackEnds(t) /\ UNCHANGED << fanVars, streamVars, aggVars, sessionVars >>
    \/ ExJoinSimple /\ UNCHANGED << fanVars, streamVars, aggVars, sessionVars >>
    \/ ExJoinTitle /\ UNCHANGED << fanVars, streamVars, aggVars, sessionVars >>
    \/ ExPoolExit /\ UNCHANGED << fanVars, streamVars, aggVars, sessionVars >>
    \/ ExCombine /\ UNCHANGED << fanVars, streamVars, aggVars, sessionVars >>
    \/ ExRerank /\ UNCHANGED << fanVars, streamVars, aggVars, sessionVars >>
    \/ ExReturn /\ UNCHANGED << fanVars, streamVars, aggVars, sessionVars >>
    \/ ExExcept /\ UNCHANGED << fanVars, streamVars, aggVars, sessionVars >>

ExecSpec == ExecInit /\ [][ExecNext]_vars

\* SSECallbackHandler called with every token of a generated sequence.
GateInit ==
    /\ IdleFanOut /\ IdleExec /\ InitGate /\ IdleAgg /\ IdleSession
    /\ status_queue = << >> /\ wPc = "idle" /\ cPc = "idle" /\ token = None
    /\ answer_started = FALSE /\ emitted = << >> /\ CHAT_MEMORY = << >>

GateNext == CallOnLlmNewToken /\ UNCHANGED << fanVars, execVars, relayVars, aggVars, sessionVars >>

GateSpec == GateInit /\ [][GateNext]_vars

\* The aggregation and the final rerank that follow a fan-out.
AggInit == InitAgg /\ IdleExec /\ IdleStream /\ IdleSession

AggNext ==
    \/ AggGroup /\ UNCHANGED << fanVars, execVars, streamVars, sessionVars >>
    \/ AggConvert /\ UNCHANGED << query_input, queries, mainPc, submitted, taskState, taskResult, collectOrder,
                                  execVars, streamVars, sessionVars >>
    \/ AggFinalRerank /\ UNCHANGED << query_input, queries, mainPc, submitted, taskState, taskResult, collectOrder,
                                  execVars, streamVars, sessionVars >>
    \/ AggFinalRerankFails /\ UNCHANGED << fanVars, execVars, streamVars, sessionVars >>
    \/ AggNoFinalRerank /\ UNCHANGED << fanVars, execVars, streamVars, sessionVars >>
    \/ AggFormat /\ UNCHANGED << fanVars, execVars, streamVars, sessionVars >>
    \/ AggReport /\ UNCHANGED << fanVars, execVars, streamVars, sessionVars >>

AggSpec == AggInit /\ [][AggNext]_vars

\* One /ask_stream request: the worker thread and the response generator.
StreamInit == IdleFanOut /\ IdleExec /\ InitRelay /\ IdleAgg /\ IdleSession

StreamNext ==
    \/ WRecordUser /\ UNCHANGED << fanVars, execVars, aggVars, sessionVars >>
    \/ WPutThinking /\ UNCHANGED << fanVars, execVars, aggVars, sessionVars >>
    \/ WPutSearching /\ UNCHANGED << fanVars, execVars, aggVars, sessionVars >>
    \/ WAgentToken /\ UNCHANGED << fanVars, execVars, aggVars, sessionVars >>
    \/ WAgentReturns /\ UNCHANGED << fanVars, execVars, aggVars, sessionVars >>
    \/ WAgentRaises /\ UNCHANGED << fanVars, execVars, aggVars, sessionVars >>
    \/ WStoreAnswer /\ UNCHANGED << fanVars, execVars, aggVars, sessionVars >>
    \/ WPutSentinel /\ UNCHANGED << fanVars, execVars, aggVars, sessionVars >>
    \/ WPutFinished /\ UNCHANGED << fanVars, execVars, aggVars, sessionVars >>
    \/ CYieldThinking /\ UNCHANGED << fanVars, execVars, aggVars, sessionVars >>
    \/ CPollToken /\ UNCHANGED << fanVars, execVars, aggVars, sessionVars >>
    \/ CPollEmpty /\ UNCHANGED << fanVars, execVars, aggVars, sessionVars >>
    \/ CYieldAnswering /\ UNCHANGED << fanVars, execVars, aggVars, sessionVars >>
    \/ CYieldChunk /\ UNCHANGED << fanVars, execVars, aggVars, sessionVars >>
    \/ CDrainStatus /\ UNCHANGED << fanVars, execVars, aggVars, sessionVars >>
    \/ CDrainDone /\ UNCHANGED << fanVars, execVars, aggVars, sessionVars >>
    \/ CYieldFinished /\ UNCHANGED << fanVars, execVars, aggVars, sessionVars >>

StreamSpec == StreamInit /\ [][StreamNext]_vars

\* Both threads keep being scheduled: the worker thread takes its next step,
\* the generator is resumed and its bounded-timeout poll returns.
FairStreamSpec ==
    /\ StreamSpec
    /\ WF_vars(Worker /\ UNCHANGED << fanVars, execVars, aggVars, sessionVars >>)
    /\ WF_vars(Consumer /\ UNCHANGED << fanVars, execVars, aggVars, sessionVars >>)

(***************************************************************************)

\* One /ask_stream request whose caller may disconnect at any point.
DisconnectNext ==
    \/ WRecordUser /\ UNCHANGED << fanVars, execVars, aggVars, sessionVars >>
    \/ WPutThinking /\ UNCHANGED << fanVars, execVars, aggVars, sessionVars >>
    \/ WPutSearching /\ UNCHANGED << fanVars, execVars, aggVars, sessionVars >>
    \/ WAgentToken /\ UNCHANGED << fanVars, execVars, aggVars, sessionVars >>
    \/ WAgentReturns /\ UNCHANGED << fanVars, execVars, aggVars, sessionVars >>
    \/ WAgentRaises /\ UNCHANGED << fanVars, execVars, aggVars, sessionVars >>
    \/ WStoreAnswer /\ UNCHANGED << fanVars, execVars, aggVars, sessionVars >>
    \/ WPutSentinel /\ UNCHANGED << fanVars, execVars, aggVars, sessionVars >>
    \/ WPutFinished /\ UNCHANGED << fanVars, execVars, aggVars, sessionVars >>
    \/ CYieldThinking /\ UNCHANGED << fanVars, execVars, aggVars, sessionVars >>
    \/ CPollToken /\ UNCHANGED << fanVars, execVars, aggVars, sessionVars >>
    \/ CPollEmpty /\ UNCHANGED << fanVars, execVars, aggVars, sessionVars >>
    \/ CYieldAnswering /\ UNCHANGED << fanVars, execVars, aggVars, sessionVars >>
    \/ CYieldChunk /\ UNCHANGED << fanVars, execVars, aggVars, sessionVars >>
    \/ CDrainStatus /\ UNCHANGED << fanVars, execVars, aggVars, sessionVars >>
    \/ CDrainDone /\ UNCHANGED << fanVars, execVars, aggVars, sessionVars >>
    \/ CYieldFinished /\ UNCHANGED << fanVars, execVars, aggVars, sessionVars >>
    \/ CDisconnect /\ UNCHANGED << fanVars, execVars, aggVars, sessionVars >>

DisconnectSpec == StreamInit /\ [][DisconnectNext]_vars

\* Requests of one chat_id on concurrent threads.
SessionInit == IdleFanOut /\ IdleExec /\ IdleStream /\ IdleAgg /\ InitSession

SessionNext ==
    \/ \E r \in Requests : Subscript(r) /\ UNCHANGED << fanVars, execVars, streamVars, aggVars >>
    \/ \E r \in Requests : Missing(r) /\ UNCHANGED << fanVars, execVars, streamVars, aggVars >>
    \/ \E r \in Requests : StoreDefault(r) /\ UNCHANGED << fanVars, execVars, streamVars, aggVars >>
    \/ \E r \in Requests : AppendTurn(r) /\ UNCHANGED << fanVars, execVars, streamVars, aggVars >>
    \/ \E r \in Requests : ReqAgentReturns(r) /\ UNCHANGED << fanVars, execVars, streamVars, aggVars >>
    \/ \E r \in Requests : ReqAgentRaises(r) /\ UNCHANGED << fanVars, execVars, streamVars, aggVars >>

SessionSpec == SessionInit /\ [][SessionNext]_vars

(* Properties of execute_dual_track_search (under ExecSpec).               *)
(***************************************************************************)
ExecReturned == exPc = "returned"

IsErrorResult(r) ==
    /\ ~IsRaised(r)
    /\ r.results = << >>
    /\ "error" \in DOMAIN r
    /\ r.error # ""

EmbedRaised == exPc # "idle" /\ exPc # "embed" /\ exEnv.embed = "raise"

RetrievalRaised == \E t \in TrackNames : track[t] = "raised"

\* A step outside the rerank try block raised: the list of documents.
OtherStepRaised == exPc \in {"except", "returned"} /\ DocumentsRaise(combined_results)

\* The step-by-step executor returns what the function of the services' answers gives.
ExecAgreesWithFunction ==
    ExecReturned => exResult = ExecuteDualTrackSearch(exQuery, exSearchId, exEnv)

\* C1 as stated: the executor never raises, it ends by returning a result, and
\* whenever the embedding call, a retrieval call or any other step (the rerank
\* call included) raised, the result has results = [] and a populated error.
C1_AnyRaiseGivesErrorResult ==
    /\ exPc # "raised"
    /\ (exPc # "idle" /\ ~ENABLED ExecNext) => ExecReturned
    /\ (ExecReturned /\ (EmbedRaised \/ RetrievalRaised \/ OtherStepRaised
                          \/ rerankCall = "raised"))
          => IsErrorResult(exResult)

\* C1 amended: the executor never raises and ends by returning a result; when
\* the embedding call, a retrieval call or a step outside the rerank try block
\* raised, the result has results = [] and a populated error; when the rerank
\* call raised, the result carries the similarity fallback and no error.
C1_ExecutorNeverRaises ==
    /\ exPc # "raised"
    /\ (exPc # "idle" /\ ~ENABLED ExecNext) => ExecReturned
    /\ (ExecReturned /\ (EmbedRaised \/ RetrievalRaised \/ OtherStepRaised))
          => IsErrorResult(exResult)
    /\ (ExecReturned /\ rerankCall = "raised")
          => /\ "error" \notin DOMAIN exResult
             /\ exResult.results = SimilarityFallback(combined_results)
             /\ exResult.results # << >>

\* A retrieval call raised while the other returned rows, and the executor returned.
C1_Witness ==
    /\ ExecReturned
    /\ track["simple"] = "returned" /\ exEnv.simple.data # << >>
    /\ track["title"] = "raised"
    /\ IsErrorResult(exResult)

\* The ids of the rows a track returned.
IdsOf(rows) == {rows[p].id : p \in DOMAIN rows}

OtherTrack(t) == IF t = "simple" THEN "title" ELSE "simple"

\* C17: when exactly one of the two retrieval calls raised and the other
\* returned rows, the result holds records, all of them rows of the surviving
\* track, and not an empty list.
C17_SurvivingTrackKept ==
    \A t \in TrackNames :
        (/\ ExecReturned
         /\ track[t] = "raised"
         /\ track[OtherTrack(t)] = "returned"
         /\ exEnv[OtherTrack(t)].data # << >>
         /\ ~DocumentsRaise(exEnv[OtherTrack(t)].data))
            => /\ exResult.results # << >>
               /\ IdsOf(exResult.results) \subseteq IdsOf(exEnv[OtherTrack(t)].data)

\* The positions of the merged records that a list of records holds.
MergedPositions(records) ==
    {j \in 1..Len(combined_results) : \E p \in 1..Len(records) : records[p] = combined_results[j]}

\* C18: when the rerank call raised over a non-empty merged set, the result
\* has no error and its records are the merged records of highest similarity,
\* unchanged, in descending order of similarity, 8 of them at most.
C18_RerankFailureFallsBack ==
    (ExecReturned /\ rerankCall = "raised" /\ combined_results # << >>) =>
        LET records == exResult.results
        IN  /\ "error" \notin DOMAIN exResult
            /\ Len(records) = Min(8, Len(combined_results))
            /\ Cardinality(MergedPositions(records)) = Len(records)
            /\ \A p, r \in 1..Len(records) :
                  p < r => records[p].similarity >= records[r].similarity
            /\ \A j \in (1..Len(combined_results)) \ MergedPositions(records) :
                  \A p \in 1..Len(records) :
                      records[p].similarity >= combined_results[j].similarity

\* The rerank call raised over more than 8 merged records that were not in
\* order of similarity.
C18_Witness ==
    /\ ExecReturned
    /\ rerankCall = "raised"
    /\ Len(combined_results) > 8
    /\ Len(exResult.results) = 8
    /\ exResult.results # SubSeq(combined_results, 1, 8)

\* The rows of both tracks in the order Track A (simple hybrid), Track B
\* (title-filtered).
TrackRows == exEnv.simple.data \o exEnv.title.data

\* The first row of an id in that order.
FirstRowOf(chunk_id) ==
    TrackRows[CHOOSE j \in 1..Len(TrackRows) :
                  /\ TrackRows[j].id = chunk_id
                  /\ \A i \in 1..(j - 1) : TrackRows[i].id # chunk_id]

\* C19: no two records of a TrackSearchResult share an id, and every record
\* carries the fields of the first row of its id in the order Track A, Track B
\* (next to the rerank score and position the executor adds).
C19_FirstOccurrenceWins ==
    ExecReturned =>
        LET records == exResult.results
        IN  /\ \A p, r \in 1..Len(records) : records[p].id = records[r].id => p = r
            /\ \A p \in 1..Len(records) :
                  LET first == FirstRowOf(records[p].id)
                  IN  /\ records[p].id \in IdsOf(TrackRows)
                      /\ \A key \in DOMAIN first : records[p][key] = first[key]
                      /\ DOMAIN records[p] \subseteq
                            (DOMAIN first) \cup {"cohere_score", "rerank_position"}

\* Both tracks returned record 1, Track A with similarity 0.60 and Track B
\* with 0.70; the result holds it once, with 0.60.
C19_Witness ==
    /\ ExecReturned
    /\ \E a \in 1..Len(exEnv.simple.data), b \in 1..Len(exEnv.title.data) :
          /\ exEnv.simple.data[a] = Rec(1, 60)
          /\ exEnv.title.data[b] = Rec(1, 70)
    /\ \E p \in 1..Len(exResult.results) :
          /\ exResult.results[p].id = 1
          /\ exResult.results[p].similarity = 60

\* execute_dual_track_search has left the with block of its inner pool and
\* works on the rows of both tracks.
PoolLeft == exPc \in {"combine", "rerank", "return"}

\* C33: after its inner pool execute_dual_track_search works on two track
\* calls that have ended; in its except clause and when it has returned its
\* result no track call is running: each call it launched has returned or
\* raised, also when the join of the other one raised.
C33_InnerPoolJoined ==
    /\ PoolLeft => \A t \in TrackNames : track[t] \in {"returned", "raised"}
    /\ exPc \in {"except", "returned", "raised"} =>
          \A t \in TrackNames : track[t] # "running"

\* The simple track raised, the title track returned rows, and the executor
\* returned its error result after both.
C33_Witness ==
    /\ exPc = "returned"
    /\ track["simple"] = "raised"
    /\ track["title"] = "returned"
    /\ exEnv.title.data # << >>
    /\ "error" \in DOMAIN exResult

(***************************************************************************)
(* Properties of the fan-out (under Spec).                                 *)
(***************************************************************************)
FanOutDone == mainPc = "done"

Positions(sid) ==
    {p \in 1..Len(all_search_results) : all_search_results[p].search_id = sid}

\* C2: the collected list has exactly one entry per sub-query identifier
\* Q1..Qn, whichever executors failed; the fan-out never ends otherwise.
C2_OneResultPerQuery ==
    /\ mainPc # "raised"
    /\ Len(all_search_results) = Cardinality({i \in Tasks : taskState[i] = "collected"})
    /\ FanOutDone =>
          /\ Len(all_search_results) = NumQueries
          /\ \A k \in Tasks : Cardinality(Positions(SearchId(k))) = 1

\* A fan-out over three or more sub-queries ended with failed and successful searches.
C2_Witness ==
    /\ FanOutDone
    /\ NumQueries >= 3
    /\ \E i, j \in Tasks :
          /\ "error" \in DOMAIN taskResult[i]
          /\ "error" \notin DOMAIN taskResult[j]

\* C3: after the fan-out, position k of the list holds the result of the k-th
\* submitted sub-query, whatever the completion order was.
C3_SubmissionOrder ==
    FanOutDone =>
        \A k \in 1..Len(all_search_results) :
            /\ all_search_results[k].search_id = SearchId(k)
            /\ all_search_results[k].query = queries[k]
            /\ all_search_results[k] = taskResult[k]

\* The tasks completed in the reverse of the submission order.
C3_Witness ==
    /\ FanOutDone
    /\ NumQueries >= 3
    /\ \A p \in 1..NumQueries : collectOrder[p] = NumQueries + 1 - p

\* C4: no sub-query is kept from being started by executors that fail, are
\* slow or never return: a queued sub-query always has a free pool thread or a
\* busy one whose task can still end.
C4_QueuedCanStart ==
    \A i \in Tasks :
        taskState[i] = "queued" =>
            \/ Cardinality(Busy) < PoolSize
            \/ \E j \in Tasks : taskState[j] = "running"

\* The sub-queries for which executor.submit has been called.
Dispatched == {i \in Tasks : taskState[i] # "new"}

\* C27: at most min(n, 4) executor tasks run at the same time, that cap is at
\* least 1, and the tasks dispatched are the first sub-queries, one each: all
\* n of them once the submissions are over.
C27_BoundedConcurrency ==
    LET cap == IF NumQueries < 4 THEN NumQueries ELSE 4
    IN  /\ cap >= 1
        /\ Cardinality(Busy) <= cap
        /\ Dispatched = 1..submitted
        /\ submitted <= NumQueries
        /\ mainPc # "submit" => submitted = NumQueries

\* Five sub-queries: four executors run while the fifth waits for a thread.
C27_Witness ==
    /\ NumQueries = 5
    /\ Cardinality(Busy) = 4
    /\ taskState[5] = "queued"

\* The list lines 250-258 leave when the tasks complete in the reverse of the
\* submission order.
CollectedInReverse ==
    SortByQueryOrder([p \in Tasks |-> taskResult[NumQueries + 1 - p]])

\* The tasks completed in submission order.
CompletedInOrder == \A p \in 1..Len(collectOrder) : collectOrder[p] = p

\* C29: whatever the completion order, the fan-out hands to the aggregation
\* the list that the same sub-query results completing in reverse order leave;
\* and from the two lists (compared for the run that completed in submission
\* order) come the same dedup groups with the same base records in the same
\* insertion order, and for each answer of the final rerank call the same
\* final list and the same report.
C29_SameReportInAnyCompletionOrder ==
    FanOutDone =>
        LET reverse_results == CollectedInReverse
            groups == GroupChunks(all_search_results)
            reverse_groups == GroupChunks(reverse_results)
            chunks == ConvertGroups(groups)
            reverse_chunks == ConvertGroups(reverse_groups)
        IN  /\ all_search_results = reverse_results
            /\ CompletedInOrder =>
                  /\ groups = reverse_groups
                  /\ \A how \in RerankOutcomes :
                        LET final == FinalChunksOf(queries, chunks, how)
                            reverse_final == FinalChunksOf(queries, reverse_chunks, how)
                        IN  /\ final = reverse_final
                            /\ ReportOf(queries, all_search_results, chunks, final)
                                  = ReportOf(queries, reverse_results, reverse_chunks,
                                             reverse_final)

\* The second sub-query completed before the first, and aggregating the
\* results in completion order would give the groups in another order.
C29_Witness ==
    /\ FanOutDone
    /\ NumQueries >= 3
    /\ collectOrder[1] = 2
    /\ collectOrder[2] = 1
    /\ LET completed == [p \in Tasks |-> taskResult[collectOrder[p]]]
           ids(groups) == [g \in 1..Len(groups) |-> groups[g].id]
       IN  ids(GroupChunks(completed)) # ids(GroupChunks(all_search_results))

(***************************************************************************)
(* Properties of the aggregation and the final rerank (under AggSpec).     *)
(***************************************************************************)
\* The groups have been converted to the deduplicated chunks.
Deduplicated == aggPc \in {"final", "format", "report", "returned"}

\* The sub-queries whose TrackSearchResult holds the record id.
ReturnedBy(chunk_id) ==
    {k \in Tasks : chunk_id \in IdsOf(all_search_results[k].results)}

\* The record ids held by the TrackSearchResults.
ReturnedIds == UNION {IdsOf(all_search_results[k].results) : k \in Tasks}

ChunksOf(chunk_id) ==
    {g \in 1..Len(deduplicated_chunks) : deduplicated_chunks[g].id = chunk_id}

\* C12: every returned record id has one chunk in the aggregate, and its
\* retrieval_count is the number of sub-queries whose result holds the id (a
\* record of both tracks of a sub-query counts once for it), so it never
\* exceeds the number of sub-queries.
C12_RetrievalCountPerSubQuery ==
    Deduplicated =>
        /\ \A chunk_id \in ReturnedIds : Cardinality(ChunksOf(chunk_id)) = 1
        /\ \A g \in 1..Len(deduplicated_chunks) :
              LET chunk == deduplicated_chunks[g]
              IN  /\ chunk.retrieval_count = Cardinality(ReturnedBy(chunk.id))
                  /\ chunk.retrieval_count <= NumQueries
                  /\ chunk.retrieved_by_query_ids = {SearchId(k) : k \in ReturnedBy(chunk.id)}

\* Both tracks of one sub-query returned record 1, and so did another sub-query.
C12_Witness ==
    /\ Deduplicated
    /\ \E k \in Tasks :
          /\ 1 \in IdsOf(aggEnv[k].simple.data) \cap IdsOf(aggEnv[k].title.data)
          /\ k \in ReturnedBy(1)
    /\ \E g \in ChunksOf(1) : deduplicated_chunks[g].retrieval_count = 2

\* The list of final chunks has been formatted.
Formatted == aggPc \in {"report", "returned"}

\* C13: a chunk's retrieval_count is the length of its group's provenance
\* list, its unique_query_count the number of distinct sub-query texts in the
\* list; unique_query_count <= retrieval_count, less only when two sub-queries
\* of the same text both returned the record; a formatted chunk has
\* is_duplicate_found exactly when its retrieval_count is above 1.
C13_ProvenanceCounts ==
    /\ Deduplicated =>
          \A g \in 1..Len(deduplicated_chunks) :
              LET chunk == deduplicated_chunks[g]
                  group == chunk_groups[g]
                  texts == {group.source_queries[p] : p \in DOMAIN group.source_queries}
              IN  /\ group.id = chunk.id
                  /\ Len(group.source_query_ids) = Len(group.source_queries)
                  /\ chunk.retrieval_count = Len(group.source_queries)
                  /\ chunk.unique_query_count = Cardinality(texts)
                  /\ chunk.retrieved_by_queries = texts
                  /\ chunk.unique_query_count <= chunk.retrieval_count
                  /\ chunk.unique_query_count < chunk.retrieval_count =>
                        \E j, k \in ReturnedBy(chunk.id) : j # k /\ queries[j] = queries[k]
    /\ Formatted =>
          /\ Len(formatted_results) = Len(final_chunks)
          /\ \A p \in 1..Len(formatted_results) :
                /\ formatted_results[p].retrieval_count = final_chunks[p].retrieval_count
                /\ formatted_results[p].unique_query_count = final_chunks[p].unique_query_count
                /\ formatted_results[p].is_duplicate_found
                      <=> formatted_results[p].retrieval_count > 1

\* The content of the record a final chunk was copied from.
ContentOfChunk(chunk) == IF "content" \in DOMAIN chunk THEN chunk.content ELSE ""

\* C28: the content of a formatted chunk is the record's content when that has
\* at most 800 characters, and otherwise its first 800 characters followed by
\* "..."; the marker is there only after a cut.
C28_ContentCutAtLimit ==
    Formatted =>
        \A p \in 1..Len(formatted_results) :
            LET content == ContentOfChunk(final_chunks[p])
                shown == formatted_results[p].content
            IN  IF Len(content) <= 800
                THEN shown = content
                ELSE /\ Len(shown) = 803
                     /\ SubSeq(shown, 1, 800) = SubSeq(content, 1, 800)
                     /\ SubSeq(shown, 801, 803) = "..."
                     /\ shown # content

\* A report with a content of exactly 800 characters shown in full, one of
\* 801 characters cut to 800 and marked, and a short one.
C28_Witness ==
    /\ Formatted
    /\ \E p, q, r \in 1..Len(formatted_results) :
          /\ Len(ContentOfChunk(final_chunks[p])) = 800
          /\ formatted_results[p].content = final_chunks[p].content
          /\ Len(ContentOfChunk(final_chunks[q])) = 801
          /\ Len(formatted_results[q].content) = 803
          /\ Len(ContentOfChunk(final_chunks[r])) < 20
          /\ formatted_results[r].content = final_chunks[r].content

\* Two sub-queries of the same text returned a record: its formatted chunk
\* counts two retrievals by one text; another chunk was retrieved once.
C13_Witness ==
    /\ Formatted
    /\ \E p, r \in 1..Len(formatted_results) :
          /\ formatted_results[p].retrieval_count = 2
          /\ formatted_results[p].unique_query_count = 1
          /\ formatted_results[p].is_duplicate_found
          /\ formatted_results[r].retrieval_count = 1
          /\ ~formatted_results[r].is_duplicate_found

\* The appearances of a record id: the records of that id in the sub-queries'
\* TrackSearchResults, as places <<k, p>>.
Appearances(chunk_id) ==
    {a \in UNION { {<< k, p >> : p \in 1..Len(all_search_results[k].results)} : k \in Tasks } :
        all_search_results[a[1]].results[a[2]].id = chunk_id}

Appearance(a) == all_search_results[a[1]].results[a[2]]

\* C14: a chunk's best_similarity is at least the similarity of every
\* appearance of its record id in any sub-query's TrackSearchResult.
C14_BestSimilarityIsUpperBound ==
    Deduplicated =>
        \A g \in 1..Len(deduplicated_chunks) :
            \A a \in Appearances(deduplicated_chunks[g].id) :
                deduplicated_chunks[g].best_similarity >= Appearance(a).similarity

\* A record appeared with similarity 0.70 and later with 0.60.
C14_Witness ==
    /\ Deduplicated
    /\ \E g \in 1..Len(deduplicated_chunks) :
          /\ deduplicated_chunks[g].best_similarity = 70
          /\ \E a, b \in Appearances(deduplicated_chunks[g].id) :
                /\ a[1] < b[1]
                /\ Appearance(a).similarity = 70
                /\ Appearance(b).similarity = 60

MaxOf(numbers) == CHOOSE x \in numbers : \A y \in numbers : y <= x

\* The rerank scores observed for a record id over its appearances.
RerankScores(chunk_id) ==
    {Appearance(a).cohere_score :
        a \in {b \in Appearances(chunk_id) : "cohere_score" \in DOMAIN Appearance(b)}}

\* C15: a chunk's best_similarity is the maximum of the similarity values of
\* the appearances of its record id, the first included, and its
\* best_cohere_score is the maximum of the rerank scores observed for the id
\* (0 when no appearance has one).
C15_BestScoresAreMaxima ==
    Deduplicated =>
        \A g \in 1..Len(deduplicated_chunks) :
            LET chunk == deduplicated_chunks[g]
            IN  /\ chunk.best_similarity =
                      MaxOf({Appearance(a).similarity : a \in Appearances(chunk.id)})
                /\ chunk.best_cohere_score =
                      IF RerankScores(chunk.id) = {} THEN 0
                      ELSE MaxOf(RerankScores(chunk.id))

\* The spec's example: appearances (similarity 0.70, no rerank score) and
\* (similarity 0.60, rerank score 0.80) give 0.70 and 0.80.
C15_Witness ==
    /\ Deduplicated
    /\ NumQueries = 2
    /\ \E g \in 1..Len(deduplicated_chunks) :
          LET chunk == deduplicated_chunks[g]
          IN  /\ \E a, b \in Appearances(chunk.id) :
                    /\ a[1] = 1 /\ b[1] = 2
                    /\ Appearance(a).similarity = 70
                    /\ "cohere_score" \notin DOMAIN Appearance(a)
                    /\ Appearance(b).similarity = 60
                    /\ Appearance(b).cohere_score = 80
              /\ chunk.best_similarity = 70
              /\ chunk.best_cohere_score = 80

\* The sub-query results in another order of the sub-queries.
SubQueryOrders == {f \in [Tasks -> Tasks] : \A j, k \in Tasks : f[j] = f[k] => j = k}

Permuted(f) == [k \in Tasks |-> all_search_results[f[k]]]

\* What the aggregation gives for a list of sub-query results.
Aggregate(search_results) == ConvertGroups(GroupChunks(search_results))

\* Per record id, the scores and counts of a list of chunks.
ScoresAndCounts(chunks) ==
    { [id |-> chunks[g].id,
       best_similarity |-> chunks[g].best_similarity,
       best_cohere_score |-> chunks[g].best_cohere_score,
       retrieval_count |-> chunks[g].retrieval_count,
       unique_query_count |-> chunks[g].unique_query_count] : g \in DOMAIN chunks }

\* C16: aggregating the same TrackSearchResults in any other order of the
\* sub-queries gives the same record ids and, for every id, the same
\* best_similarity, best_cohere_score, retrieval_count and unique_query_count.
C16_OrderIndependentScores ==
    aggPc = "final" =>
        \A f \in SubQueryOrders :
            ScoresAndCounts(Aggregate(Permuted(f))) = ScoresAndCounts(deduplicated_chunks)

\* Three sub-queries share a record with different scores, and another order
\* of the sub-queries changes the list of chunks (its order or a base record).
C16_Witness ==
    /\ aggPc = "final"
    /\ NumQueries = 3
    /\ \E g \in 1..Len(deduplicated_chunks) :
          /\ deduplicated_chunks[g].retrieval_count = 3
          /\ deduplicated_chunks[g].similarity # deduplicated_chunks[g].best_similarity
    /\ \E f \in SubQueryOrders : Aggregate(Permuted(f)) # deduplicated_chunks

\* The final rerank call was made and returned.
FinalRerankReturned ==
    aggPc \in {"format", "report", "returned"} /\ "results" \in DOMAIN final_rerank

FinalRerankRaised == aggPc \in {"format", "report", "returned"} /\ IsRaised(final_rerank)

\* The first appearance of a record id while the sub-query results are
\* scanned in submission order, as a place <<k, p>>.
FirstAppearance(chunk_id) ==
    CHOOSE a \in Appearances(chunk_id) :
        \A b \in Appearances(chunk_id) :
            a[1] < b[1] \/ (a[1] = b[1] /\ a[2] <= b[2])

\* C21: when more than one sub-query was issued and the final rerank call
\* raised, the final list is the first 12 chunks (all, if fewer) of the
\* deduplicated list, and that list is in the order of the first appearance of
\* its ids in the sub-query results scanned in submission order.
C21_FallbackInInsertionOrder ==
    FinalRerankRaised =>
        /\ NumQueries > 1
        /\ Len(final_chunks) = Min(12, Len(deduplicated_chunks))
        /\ \A p \in 1..Len(final_chunks) :
              /\ final_chunks[p] = deduplicated_chunks[p]
              /\ "final_rank" \notin DOMAIN final_chunks[p]
        /\ \A p, r \in 1..Len(deduplicated_chunks) :
              p < r =>
                  LET a == FirstAppearance(deduplicated_chunks[p].id)
                      b == FirstAppearance(deduplicated_chunks[r].id)
                  IN  a[1] < b[1] \/ (a[1] = b[1] /\ a[2] < b[2])

\* The final rerank raised over more than 12 chunks; the list was cut at 12,
\* and its last chunk first appeared in the results of a later sub-query.
C21_Witness ==
    /\ FinalRerankRaised
    /\ Len(deduplicated_chunks) > 12
    /\ Len(final_chunks) = 12
    /\ FirstAppearance(final_chunks[12].id)[1] > 1

\* The final stage has run.
FinalStageDone == aggPc \in {"format", "report", "returned"}

\* C22: with exactly one sub-query no final rerank call is made, and the
\* final list is the first 8 records (all, if fewer) of that sub-query's
\* TrackSearchResult, in the executor's order, each with the fields the
\* executor gave it.
C22_SingleQueryKeepsExecutorOrder ==
    (FinalStageDone /\ NumQueries = 1) =>
        LET records == all_search_results[1].results
        IN  /\ final_rerank = None
            /\ Len(final_chunks) = Min(8, Len(records))
            /\ \A p \in 1..Len(final_chunks) :
                  /\ "final_rank" \notin DOMAIN final_chunks[p]
                  /\ \A key \in DOMAIN records[p] : final_chunks[p][key] = records[p][key]

\* The only sub-query returned 10 reranked records; the final list holds the
\* first 8.
C22_Witness ==
    /\ FinalStageDone
    /\ NumQueries = 1
    /\ Len(all_search_results[1].results) = 10
    /\ Len(final_chunks) = 8
    /\ final_chunks[8].rerank_position = 8

\* parallel_comprehensive_search has returned its report.
Reported == aggPc = "returned"

IsNotFound(r) == "status" \in DOMAIN r /\ r.status = "not_found"

SummaryOf(r) == IF IsNotFound(r) THEN r.search_summary ELSE r

\* Every sub-query failed or returned no records.
NothingFound == \A k \in Tasks : all_search_results[k].results = << >>

\* C23: when every sub-query failed or returned no records the call goes on
\* step by step until it returns (no step raises); the report has status
\* not_found exactly when the final list is empty, and then its summary has
\* total_results 0 and duplicates_removed 0; when every sub-query failed or
\* returned no records the report is the not_found report.
C23_NotFoundWhenEmpty ==
    /\ (aggPc \in {"group", "convert", "final", "format", "report"} /\ NothingFound)
          => ENABLED AggNext
    /\ Reported =>
          /\ IsNotFound(report) <=> final_chunks = << >>
          /\ IsNotFound(report) =>
                /\ SummaryOf(report).total_results = 0
                /\ SummaryOf(report).results = << >>
                /\ SummaryOf(report).deduplication_stats.duplicates_removed = 0
          /\ ~IsNotFound(report) => report.total_results = Len(final_chunks)
          /\ NothingFound => IsNotFound(report)

\* One sub-query failed and another returned no records: the report is the
\* not_found report.
C23_Witness ==
    /\ Reported
    /\ IsNotFound(report)
    /\ \E j, k \in Tasks :
          /\ "error" \in DOMAIN all_search_results[j]
          /\ "error" \notin DOMAIN all_search_results[k]
          /\ all_search_results[k].results = << >>

\* The records of all sub-query results, one pair per record.
AllRecords ==
    UNION { {<< k, p >> : p \in 1..Len(all_search_results[k].results)} : k \in Tasks }

\* One pair per retrieval counted by a chunk: as many as the sum of the
\* retrieval_count of all chunks.
CountedRetrievals ==
    UNION { {<< g, j >> : j \in 1..deduplicated_chunks[g].retrieval_count} :
            g \in 1..Len(deduplicated_chunks) }

\* C34: in every report total_chunks_before is the number of records of all
\* sub-query results and the sum of retrieval_count over the dedup groups,
\* unique_chunks_after is the number of distinct record ids, and
\* duplicates_removed is their difference and not negative.
C34_DedupStatsConsistent ==
    Reported =>
        LET stats == SummaryOf(report).deduplication_stats
        IN  /\ stats.total_chunks_before = Cardinality(AllRecords)
            /\ stats.total_chunks_before = Cardinality(CountedRetrievals)
            /\ stats.unique_chunks_after =
                  Cardinality(UNION {IdsOf(all_search_results[k].results) : k \in Tasks})
            /\ stats.unique_chunks_after = Len(chunk_groups)
            /\ stats.duplicates_removed
                  = stats.total_chunks_before - stats.unique_chunks_after
            /\ stats.duplicates_removed >= 0

\* A report over three sub-queries that removed two or more duplicates and
\* kept two or more chunks.
C34_Witness ==
    /\ Reported
    /\ NumQueries = 3
    /\ ~IsNotFound(report)
    /\ report.deduplication_stats.duplicates_removed >= 2
    /\ report.deduplication_stats.unique_chunks_after >= 2
    /\ report.deduplication_stats.total_chunks_before
          = Len(all_search_results[1].results) + Len(all_search_results[2].results)
            + Len(all_search_results[3].results)

\* C35: on every path of the final stage the final list has no two entries of
\* the same id, every entry's id is the id of a record of some sub-query's
\* result list, and the list has 12 entries at most; the formatted report holds
\* the same ids in the same order.
C35_FinalListWellFormed ==
    /\ FinalStageDone =>
          /\ Len(final_chunks) <= 12
          /\ \A p, q \in 1..Len(final_chunks) :
                final_chunks[p].id = final_chunks[q].id => p = q
          /\ \A p \in 1..Len(final_chunks) :
                \E k \in Tasks : final_chunks[p].id \in IdsOf(all_search_results[k].results)
    /\ Formatted =>
          /\ Len(formatted_results) = Len(final_chunks)
          /\ \A p \in 1..Len(formatted_results) :
                formatted_results[p].chunk_id = final_chunks[p].id

\* A final rerank over more than 12 chunks returned: the formatted list holds
\* 10 entries, among them one that two sub-queries returned.
C35_Witness ==
    /\ Formatted
    /\ FinalRerankReturned
    /\ Len(deduplicated_chunks) > 12
    /\ Len(formatted_results) = 10
    /\ \E p \in 1..Len(formatted_results) : formatted_results[p].retrieval_count >= 2

\* The keys the aggregation and the final rerank write to a chunk.
WrittenKeys ==
    {"retrieved_by_queries", "retrieved_by_query_ids", "retrieval_count",
     "unique_query_count", "best_similarity", "best_cohere_score",
     "final_cohere_score", "final_rank"}

\* Every chunk is the first record of its own id with written keys added:
\* nothing of another id reached it and no column of the record was changed.
OwnCopies ==
    Deduplicated =>
        \A g \in 1..Len(deduplicated_chunks) :
            LET chunk == deduplicated_chunks[g]
                record == Appearance(FirstAppearance(chunk.id))
            IN  /\ chunk_groups[g].id = chunk.id
                /\ chunk_groups[g].chunk_data = chunk
                /\ DOMAIN chunk \ WrittenKeys = DOMAIN record
                /\ \A key \in DOMAIN record : chunk[key] = record[key]
                /\ \A h \in 1..Len(deduplicated_chunks) :
                      deduplicated_chunks[h].id = chunk.id => h = g

\* C32: no step of the aggregation, the final rerank or the formatting
\* changes a record of a sub-query's result list, and after every step each
\* chunk is the aggregator's copy of the first record of its own id.
C32_ResultsLeftUnchanged ==
    [][aggPc # "idle" => (all_search_results' = all_search_results /\ OwnCopies')]_vars

\* A chunk found by two sub-queries got provenance and a final rank, and
\* the records of its id in the result lists carry neither.
C32_Witness ==
    /\ Formatted
    /\ \E g \in 1..Len(final_chunks) :
          /\ final_chunks[g].retrieval_count >= 2
          /\ "final_rank" \in DOMAIN final_chunks[g]
          /\ \A a \in Appearances(final_chunks[g].id) :
                DOMAIN Appearance(a) \cap WrittenKeys = {}

(***************************************************************************)
(* Properties of SSECallbackHandler (under GateSpec).                      *)
(***************************************************************************)
RECURSIVE ConcatAll(_)
ConcatAll(texts) ==
    IF texts = << >> THEN ""
    ELSE ConcatAll(SubSeq(texts, 1, Len(texts) - 1)) \o texts[Len(texts)]

IsPrefix(a, b) == Len(a) <= Len(b) /\ SubSeq(b, 1, Len(a)) = a

\* The text the model has generated so far.
Generated == ConcatAll(SubSeq(genStream, 1, genPos))

\* The text of the token items of a queue, in order.
TextsOf(q) ==
    LET items == SelectSeq(q, LAMBDA item : ~IsNone(item))
    IN  [p \in 1..Len(items) |-> items[p].token]

\* The text that follows the first occurrence of the marker in a text that holds it.
TextAfterFirstMarker(text) ==
    LET k == CHOOSE n \in 0..(Len(text) - Len(Marker)) :
                 /\ SubSeq(text, n + 1, n + Len(Marker)) = Marker
                 /\ \A j \in 0..(n - 1) : SubSeq(text, j + 1, j + Len(Marker)) # Marker
    IN  SubSeq(text, k + Len(Marker) + 1, Len(text))

MarkerSeen(text) ==
    \E n \in 0..(Len(text) - Len(Marker)) : SubSeq(text, n + 1, n + Len(Marker)) = Marker

\* C5: whatever the token boundaries, the handler forwards nothing while the
\* generated text does not hold the marker, and what it has forwarded is text
\* that starts with the first character after the first occurrence of the marker.
C5_NothingBeforeMarker ==
    IF MarkerSeen(Generated)
    THEN IsPrefix(ConcatAll(TextsOf(token_queue)), TextAfterFirstMarker(Generated))
    ELSE token_queue = << >>

\* Text, then the marker split over two tokens, the second with text after it.
C5_Witness ==
    /\ Len(genStream) >= 3 /\ genPos >= 3
    /\ genStream[1] = "Thought: x"
    /\ genStream[2] = "x Final Ans"
    /\ genStream[3] = "wer: y"
    /\ token_queue # << >>
    /\ token_queue[1] = Tok(" y")

\* The position of the token that completed the first occurrence of the marker.
MarkerToken ==
    CHOOSE j \in 1..genPos :
        /\ MarkerSeen(ConcatAll(SubSeq(genStream, 1, j)))
        /\ ~MarkerSeen(ConcatAll(SubSeq(genStream, 1, j - 1)))

\* C11: once the marker has been seen, the channel holds the remainder of the
\* token that completed the marker (when it has one) and then every later
\* token as an item of its own, unchanged; so the concatenation of the
\* forwarded items is the generated text after the first occurrence of the marker.
C11_ForwardedIsTextAfterMarker ==
    MarkerSeen(Generated) =>
        LET rest == TextAfterFirstMarker(ConcatAll(SubSeq(genStream, 1, MarkerToken)))
        IN  /\ token_queue =
                  (IF rest # "" THEN << Tok(rest) >> ELSE << >>)
                  \o [p \in 1..(genPos - MarkerToken) |-> Tok(genStream[MarkerToken + p])]
            /\ ConcatAll(TextsOf(token_queue)) = TextAfterFirstMarker(Generated)

\* The marker came with text after it in one token, and two tokens followed.
C11_Witness ==
    /\ Len(genStream) >= 3 /\ genPos >= 3
    /\ genStream[1] = "Final Answer: Hi"
    /\ genStream[2] = " Hello"
    /\ SubSeq(token_queue, 1, 3) = << Tok(" Hi"), Tok(" Hello"), Tok(genStream[3]) >>

(***************************************************************************)
(* Properties of one /ask_stream request (under StreamSpec, and under      *)
(* FairStreamSpec for what must eventually happen).                        *)
(***************************************************************************)
StreamClosed == cPc = "done"

StatusPositions(s) == {p \in 1..Len(emitted) : emitted[p] = Status(s)}

ChunkPositions == {p \in 1..Len(emitted) : emitted[p].type = "answer"}

\* The answer chunks sent to the client, in order.
ChunksSent ==
    LET answers == SelectSeq(emitted, LAMBDA e : e.type = "answer")
    IN  [p \in 1..Len(answers) |-> answers[p].chunk]

\* The handler run on its own over the tokens generated so far.
RECURSIVE GateRun(_)
GateRun(tokens) ==
    IF tokens = << >> THEN [q |-> << >>, buffer |-> "", started |-> FALSE]
    ELSE OnLlmNewToken(GateRun(SubSeq(tokens, 1, Len(tokens) - 1)), tokens[Len(tokens)])

\* The tokens the handler has put on the token channel, in order.
Forwarded == TextsOf(GateRun(SubSeq(genStream, 1, genPos)).q)

\* The token stream() has taken and not yet yielded.
TokenInHand == IF cPc \in {"yield_answering", "yield_chunk"} THEN << token.token >> ELSE << >>

\* C6: with both threads scheduled fairly, the stream eventually emits the
\* finished status and the consumer loop ends, also when the agent call raises.
C6_EventuallyFinished ==
    <>(StreamClosed /\ emitted # << >> /\ emitted[Len(emitted)] = Status("finished"))

\* C7: a stream holds at most one finished status, and a closed stream holds
\* exactly one, as its last event.
C7_ExactlyOneFinished ==
    /\ Cardinality(StatusPositions("finished")) <= 1
    /\ StreamClosed =>
          /\ Cardinality(StatusPositions("finished")) = 1
          /\ emitted[Len(emitted)] = Status("finished")

\* C8: the chunks sent, the token in hand and the tokens waiting in the
\* channel are together the forwarded tokens in their order; the sentinel is
\* the last item of the channel; a closed stream has sent every forwarded token.
C8_ChunksAreForwardedTokens ==
    /\ ChunksSent \o TokenInHand \o TextsOf(token_queue) = Forwarded
    /\ \A p \in 1..Len(token_queue) : IsNone(token_queue[p]) => p = Len(token_queue)
    /\ StreamClosed => ChunksSent = Forwarded

\* A stream closed after sending two or more chunks.
C8_Witness ==
    /\ StreamClosed
    /\ Len(ChunksSent) >= 2
    /\ ChunksSent = Forwarded

StatusRank(s) ==
    CASE s = "thinking" -> 1
      [] s = "searching" -> 2
      [] s = "answering" -> 3
      [] s = "finished" -> 4

\* C9: the statuses of a stream go forward only: each later status event has
\* a status later in thinking, searching, answering, finished.
C9_StatusForwardPath ==
    \A p, r \in 1..Len(emitted) :
        (p < r /\ emitted[p].type = "status" /\ emitted[r].type = "status")
            => StatusRank(emitted[p].status) < StatusRank(emitted[r].status)

\* C10: answering is emitted at most once, only for a token taken from the
\* channel, directly before the first answer chunk and before every chunk;
\* a stream that sent a chunk has emitted it, a stream without tokens never does.
C10_AnsweringAtFirstToken ==
    /\ Cardinality(StatusPositions("answering")) <= 1
    /\ \A p \in StatusPositions("answering") :
          /\ \A c \in ChunkPositions : p < c
          /\ IF p = Len(emitted)
             THEN cPc = "yield_chunk"
             ELSE emitted[p + 1].type = "answer"
          /\ Forwarded # << >>
    /\ ChunkPositions # {} => StatusPositions("answering") # {}
    /\ answer_started <=> StatusPositions("answering") # {}
    /\ (StreamClosed /\ Forwarded # << >>) => StatusPositions("answering") # {}

\* answering was emitted, then the first chunk and a second chunk.
C10_Witness ==
    /\ StreamClosed
    /\ Len(ChunksSent) >= 2
    /\ \E p \in StatusPositions("answering") :
          /\ emitted[p + 1].type = "answer"
          /\ emitted[p + 1].chunk = Forwarded[1]

\* The worker thread has ended, by returning or by an exception.
WorkerEnded == wPc \in {"done", "raised"}

\* C24: a failing answer generation does not end the worker by an exception:
\* the worker goes on to store an answer and to put the sentinel, so a worker
\* that has ended has answered and a closed stream is possible.
C24_GenerationFailureAnswered ==
    /\ wPc # "raised"
    /\ WorkerEnded =>
          /\ Len(CHAT_MEMORY) = 2
          /\ CHAT_MEMORY[2].role = "assistant"
          /\ \/ token_queue # << >> /\ IsNone(token_queue[Len(token_queue)])
             \/ cPc \in {"yield_finished", "done"}

\* C25: the session holds the exchange's user turn and then its assistant
\* turn and nothing else; once the worker has ended both are there.
C25_OneUserThenOneAssistant ==
    /\ CHAT_MEMORY \in {<< >>, << UserTurn >>, << UserTurn, AssistantTurn >>}
    /\ WorkerEnded => CHAT_MEMORY = << UserTurn, AssistantTurn >>

\* C30: a closed stream has relayed every status the worker put on the status
\* channel before the sentinel: searching is among the events, and thinking
\* is there a second time, after the one stream() yields itself.
C30_StatusesBeforeSentinelRelayed ==
    StreamClosed =>
        /\ StatusPositions("searching") # {}
        /\ Cardinality(StatusPositions("thinking")) = 2

(***************************************************************************)
(* Properties of concurrent requests of one chat_id (under SessionSpec).   *)
(***************************************************************************)
\* The turns of the session: the list stored under chat_id.
SessionTurns == IF session_entry = NoList THEN << >> ELSE turn_lists[session_entry.list]

TurnPositions(turn) == {p \in 1..Len(SessionTurns) : SessionTurns[p] = turn}

\* C26: once every request has completed, the session holds each request's
\* user turn and assistant turn exactly once, the user turn first.
C26_NoTurnLost ==
    (\A r \in Requests : reqPc[r] = "done") =>
        \A r \in Requests :
            /\ Cardinality(TurnPositions(TurnOf("user", r))) = 1
            /\ Cardinality(TurnPositions(TurnOf("assistant", r))) = 1
            /\ \A p \in TurnPositions(TurnOf("user", r)) :
                  \A a \in TurnPositions(TurnOf("assistant", r)) : p < a

\* The assistant turn of the exchange is in the session.
AssistantStored == Len(CHAT_MEMORY) = 2 /\ CHAT_MEMORY[2] = AssistantTurn

Disconnected == cPc = "disconnected"

\* The sentinel is on the token channel or stream() has taken it.
SentinelPut ==
    \/ token_queue # << >> /\ IsNone(token_queue[Len(token_queue)])
    \/ IsNone(token) /\ emitted # << >>

\* C31: wherever stream() stands or stopped, the worker's next step can be
\* taken: no put waits for room on a channel; while the agent runs, the
\* handler takes the next token or the agent returns. A worker that ran to
\* its end has appended the assistant turn and put the sentinel.
C31_WorkerNeverBlocks ==
    /\ wPc = "record_user" => ENABLED WRecordUser
    /\ wPc = "put_thinking" => ENABLED WPutThinking
    /\ wPc = "put_searching" => ENABLED WPutSearching
    /\ wPc = "run_agent" => ENABLED WAgentToken \/ ENABLED WAgentReturns
    /\ wPc = "store_answer" => ENABLED WStoreAnswer
    /\ wPc = "put_sentinel" => ENABLED WPutSentinel
    /\ wPc = "put_finished" => ENABLED WPutFinished
    /\ wPc \in {"put_sentinel", "put_finished", "done"} =>
          CHAT_MEMORY = << UserTurn, AssistantTurn >>
    /\ wPc \in {"put_finished", "done"} => SentinelPut

\* The caller left after the first chunk; the worker ran to its end with a
\* token, the sentinel and three statuses left on the channels.
C31_Witness ==
    /\ Disconnected
    /\ wPc = "done"
    /\ Len(ChunksSent) = 1
    /\ Len(token_queue) = 2
    /\ IsNone(token_queue[Len(token_queue)])
    /\ Len(status_queue) = 3
    /\ CHAT_MEMORY = << UserTurn, AssistantTurn >>

\* The parsing of the tool input, lines 203-234.
ParseInit == InitParse /\ IdleExec /\ IdleStream /\ IdleAgg /\ IdleSession

ParseNext ==
    \/ ParseInput /\ UNCHANGED << execVars, streamVars, aggVars, sessionVars >>
    \/ CleanUp /\ UNCHANGED << execVars, streamVars, aggVars, sessionVars >>

ParseSpec == ParseInit /\ [][ParseNext]_vars

\* No request of the session is in flight: each has returned or raised.
NoneInFlight == \A r \in Requests : reqPc[r] \in {"done", "raised"}

\* C37: whenever no request is in flight the turns of the session alternate
\* user, assistant, user, assistant, ..., from a user turn to an assistant turn.
C37_TurnsAlternate ==
    NoneInFlight =>
        /\ Len(SessionTurns) % 2 = 0
        /\ \A p \in 1..Len(SessionTurns) :
              SessionTurns[p].role = IF p % 2 = 1 THEN "user" ELSE "assistant"

(***************************************************************************)
(* Properties of the sub-query parsing, under ParseSpec.                   *)
(***************************************************************************)
\* C38: for every input string the parsing completes without raising and
\* yields a non-empty list of non-empty, trimmed strings; input that is no
\* JSON text becomes the one sub-query that is the trimmed input, and an
\* empty result becomes the default query.
C38_ParsingYieldsQueries ==
    /\ mainPc # "raised"
    /\ mainPc = "parsed" =>
          /\ queries.items # << >>
          /\ \A k \in 1..Len(queries.items) :
                LET q == queries.items[k]
                IN  isinstance(q, "str") /\ Truthy(q) /\ Strip(q) = q
          /\ IsRaised(JsonLoads(query_input)) =>
                queries.items = IF Truthy(Strip(query_input))
                                THEN << Strip(query_input) >>
                                ELSE << DefaultQuery >>

=============================================================================
